---------------------------- MODULE Spec2Model ----------------------------
(***************************************************************************)
(* A model of Melvillian/prova:                                            *)
(*   - src/txscript/standard.go: the script classifier and the admin-op    *)
(*     validation (isGeneralAztec, isAztec, isAztecAdmin, isNullData,      *)
(*     typeOfScript, GetScriptClass, IsValidAdminOp, GetAdminDetails);     *)
(*   - src/blockchain/fullblocktests/generate.go: the chain builder        *)
(*     (testGenerator, nextBlock, setTip, saveTipCoinbaseOut,              *)
(*     oldestCoinbaseOut), the body of Generate and the PoW solver         *)
(*     solveBlock with its worker goroutines.                              *)
(* There is one specification per part: SpecClassify, SpecAdminOp,         *)
(* SpecAdminDetails, SpecGenerate, SpecSolve (FairSolve adds the           *)
(* scheduler's fairness).                                                  *)
(***************************************************************************)
EXTENDS Integers, Sequences, FiniteSets, TLC

VARIABLES
    \* ---- classifier (standard.go) ----
    script,        \* the script handed to the classifier: [ops, bad]
    called,        \* the entry point that has run, "none" before
    class,         \* result of GetScriptClass
    threadArg,     \* the threadID argument of IsValidAdminOp
    valid,         \* result of IsValidAdminOp
    txOut,         \* the outputs' scripts of the transaction handed to GetAdminDetails
    details,       \* result of GetAdminDetails: [threadID, nil, adminOutputs]
    className,     \* result of ScriptClass.String: [panic, str]
    \* ---- Generate and the testGenerator (generate.go) ----
    pc,            \* index of the next statement of Generate, 0 = returned
    g,             \* the testGenerator
    outs,          \* Generate's local slice outs
    testInstances, \* Generate's local slice testInstances
    tests,         \* the named result tests
    err,           \* the named result err
    nrand,         \* number of rand.Read calls so far (fresh pkHash values)
    params,        \* chaincfg.RegressionNetParams: AdminKeySets, WspKeyIdMap
    nbArgs,        \* the arguments of a single call of nextBlock: [spend, mungers]
    nbRes,         \* what that call did: [solved, panic, block]
    answers,       \* the nonces solveBlock left in the headers Generate had solved, in order
    \* ---- solveBlock (generate.go) ----
    numCores,      \* runtime.NumCPU()
    solutions,     \* the nonces whose header hash is <= target
    header,        \* the caller's header: [Nonce]
    quit,          \* the quit channel is closed
    wpc,           \* worker -> "loop", "send", "done"
    wi,            \* worker -> loop counter i (uint32)
    wmsg,          \* worker -> the sbResult it is sending
    mpc,           \* solveBlock's own position: "idle", "spawn", "recv", "returned"
    mi,            \* solveBlock's loop counter
    ret            \* solveBlock's return value

scriptVars == <<script, called, class, threadArg, valid, txOut, details, className>>
genVars == <<pc, g, outs, testInstances, tests, err, nrand, params, nbArgs, nbRes, answers>>
solveVars == <<numCores, solutions, header, quit, wpc, wi, wmsg, mpc, mi, ret>>
vars == <<scriptVars, genVars, solveVars>>

-----------------------------------------------------------------------------
(* Bounds of the model *)

\* most mungers handed to a single call of nextBlock
MaxMungers == 2
\* most times, in one run of Generate, solveBlock answers another nonce than
\* it answered for the block before
MaxNonceChanges == 1
\* most blocks built by a sequence of nextBlock and setTip calls
MaxChainBlocks == 2
\* most outputs of a transaction handed to GetAdminDetails
MaxOuts == 3
\* longest sequence over the full operation alphabet that is enumerated
MaxShortLen == 2
\* most operations between nSigs and nKeys in an enumerated multisig-shaped script
MaxMid == 4
\* most keys in a key set of the genesis configuration
MaxGenesisKeys == 2
\* g.params.CoinbaseMaturity, the number of blocks Generate builds before b1
\* and of coinbase outputs it collects: a parameter of the network scaled
\* down to the least value with which outs[12], the last output Generate
\* spends, exists
coinbaseMaturity == 10
\* width of the nonce in bits, scaled down from the 32 of uint32
NonceBits == 2
\* most CPUs runtime.NumCPU() reports
MaxCores == 2
\* most nonces whose header hash meets the target
MaxSolutions == 2

-----------------------------------------------------------------------------
(* Opcode values (txscript/opcode.go) *)

OP_0 == 0
OP_DATA_4 == 4
OP_DATA_20 == 20
OP_DATA_33 == 33
OP_DATA_34 == 34
OP_DATA_38 == 38
OP_PUSHDATA1 == 76
OP_PUSHDATA4 == 78
OP_1NEGATE == 79
OP_RESERVED == 80
OP_1 == 81
OP_2 == 82
OP_3 == 83
OP_16 == 96
OP_RETURN == 106
OP_CHECKMULTISIG == 174
OP_CHECKSAFEMULTISIG == 186
OP_CHECKTHREAD == 187

OP_PROVISIONINGKEYADD == 1
OP_PROVISIONINGKEYREVOKE == 2
OP_ISSUINGKEYADD == 3
OP_ISSUINGKEYREVOKE == 4
OP_VALIDATEKEYADD == 17
OP_VALIDATEKEYREVOKE == 18
OP_WSPKEYADD == 19
OP_WSPKEYREVOKE == 20

MaxDataCarrierSize == 80
PubKeyBytesLenCompressed == 33
KeyIDSize == 4

\* rmgutil.ThreadID
RootThread == 0
ProvisionThread == 1
IssueThread == 2

\* ScriptClass: the values iota gives the constants
NonStandardTy == 0
PubKeyTy == 1
PubKeyHashTy == 2
ScriptHashTy == 3
MultiSigTy == 4
NullDataTy == 5
AztecTy == 6
GeneralAztecTy == 7
AztecAdminTy == 8

-----------------------------------------------------------------------------
(* parsedOpcode: op is opcode.value (a byte); dlen is len(data); the content  *)
(* of data is kept as far as the code reads it: num/numOK the number a push   *)
(* of at most 4 bytes decodes to and whether it decodes (for a 20-byte hash   *)
(* the hash, for an admin payload its KeyID), b0 the first byte, keyOK        *)
(* whether bytes 1..33 parse as a compressed public key, key which one.       *)

Pop(o, n, v, nok, b, kok, ky) ==
    [op |-> o, dlen |-> n, num |-> v, numOK |-> nok, b0 |-> b, keyOK |-> kok, key |-> ky]

Op(o) == Pop(o, 0, 0, TRUE, 0, FALSE, 0)
Push(o, n) == Pop(o, n, 0, FALSE, 0, FALSE, 0)
SmallInt(n) == Op(IF n = 0 THEN OP_0 ELSE OP_1 - 1 + n)
KeyIDPush(k) == Pop(OP_DATA_4, KeyIDSize, k, TRUE, 0, FALSE, 0)
BadKeyIDPush == Pop(OP_DATA_4, KeyIDSize, 0, FALSE, 0, FALSE, 0)
HashPush == Push(OP_DATA_20, 20)
AdminPush(o, n, a, kok) == Pop(o, n, 0, FALSE, a, kok, 0)

\* isSmallInt (txscript/script.go)
isSmallInt(op) == op = OP_0 \/ (op >= OP_1 /\ op <= OP_16)

\* asSmallInt (txscript/script.go): byte arithmetic, no check of the opcode
asSmallInt(op) == IF op = OP_0 THEN 0 ELSE (op - (OP_1 - 1)) % 256

\* isUint32 (txscript/script.go): a small integer or a push of at most 4 bytes
isUint32(op) == isSmallInt(op) \/ (op >= 1 /\ op <= OP_DATA_4)

\* asInt32 (txscript/script.go): the value, or an error
asInt32(pop) ==
    IF isSmallInt(pop.op) THEN [val |-> asSmallInt(pop.op), err |-> FALSE]
    ELSE IF pop.dlen <= KeyIDSize /\ pop.numOK THEN [val |-> pop.num, err |-> FALSE]
    ELSE [val |-> 0, err |-> TRUE]

-----------------------------------------------------------------------------
(* isGeneralAztec: the loop over pops[1 : sLen-2] is a fold whose state is    *)
(* the three locals and whether the loop has returned false.                 *)

LoopStart == [nKeyIDs |-> 0, nKeyHashes |-> 0, seenKeyIDs |-> {}, ret |-> FALSE]

\* an iteration that does not look at the KeyIDs seen before
LoopBodyNoSeen(st, pop) ==
    IF st.ret THEN st
    ELSE IF pop.dlen = 20
    THEN IF st.nKeyIDs > 0
         THEN [st EXCEPT !.ret = TRUE]
         ELSE [st EXCEPT !.nKeyHashes = @ + 1]
    ELSE IF isUint32(pop.op)
    THEN LET k == asInt32(pop) IN
         IF k.err THEN [st EXCEPT !.ret = TRUE]
         ELSE [st EXCEPT !.seenKeyIDs = @ \cup {k.val}, !.nKeyIDs = @ + 1]
    ELSE st

\* an iteration that counts a key hash wherever it stands
LoopBodyAnyOrder(st, pop) ==
    IF st.ret THEN st
    ELSE IF pop.dlen = 20
    THEN [st EXCEPT !.nKeyHashes = @ + 1]
    ELSE IF isUint32(pop.op)
    THEN LET k == asInt32(pop) IN
         IF k.err THEN [st EXCEPT !.ret = TRUE]
         ELSE IF k.val \in st.seenKeyIDs THEN [st EXCEPT !.ret = TRUE]
         ELSE [st EXCEPT !.seenKeyIDs = @ \cup {k.val}, !.nKeyIDs = @ + 1]
    ELSE st

\* one iteration of the loop body, lines 118-141
LoopBody(st, pop) ==
    IF st.ret THEN st
    ELSE IF pop.dlen = 20
    THEN IF st.nKeyIDs > 0
         THEN [st EXCEPT !.ret = TRUE]
         ELSE [st EXCEPT !.nKeyHashes = @ + 1]
    ELSE IF isUint32(pop.op)
    THEN LET k == asInt32(pop) IN
         IF k.err THEN [st EXCEPT !.ret = TRUE]
         ELSE IF k.val \in st.seenKeyIDs THEN [st EXCEPT !.ret = TRUE]
         ELSE [st EXCEPT !.seenKeyIDs = @ \cup {k.val}, !.nKeyIDs = @ + 1]
    ELSE st

RECURSIVE KeyLoop(_, _, _, _)
KeyLoop(pops, i, last, st) ==
    IF i > last THEN st ELSE KeyLoop(pops, i + 1, last, LoopBody(st, pops[i]))

\* the final checks without the bound on the key hashes
CountChecksNoHashBound(nSigs, st) == ~(st.nKeyIDs < nSigs)

\* the final checks of isGeneralAztec, lines 143-151
CountChecks(nSigs, st) ==
    /\ ~(st.nKeyHashes >= nSigs)
    /\ ~(st.nKeyIDs < nSigs)

isGeneralAztec(pops) ==
    LET sLen == Len(pops) IN
    IF sLen < 6 THEN FALSE
    ELSE IF ~isSmallInt(pops[1].op) THEN FALSE
    ELSE IF ~isSmallInt(pops[sLen - 1].op) THEN FALSE
    ELSE IF pops[sLen].op # OP_CHECKSAFEMULTISIG THEN FALSE
    ELSE LET nSigs == asSmallInt(pops[1].op)
             nKeys == asSmallInt(pops[sLen - 1].op)
         IN IF nSigs < 2 THEN FALSE
            ELSE IF sLen - 2 - 1 # nKeys THEN FALSE
            ELSE LET st == KeyLoop(pops, 2, sLen - 2, LoopStart) IN
                 IF st.ret THEN FALSE ELSE CountChecks(nSigs, st)

isAztec(pops) ==
    /\ Len(pops) = 6
    /\ pops[1].op = OP_2
    /\ pops[5].op = OP_3
    /\ isGeneralAztec(pops)

\* a thread test that has no upper limit for the thread id
isAztecAdminNoUpper(pops) ==
    LET sLen == Len(pops) IN
    IF sLen # 2 THEN FALSE
    ELSE IF pops[sLen].op # OP_CHECKTHREAD THEN FALSE
    ELSE LET threadID == asSmallInt(pops[1].op) IN
         ~(threadID < RootThread)

isAztecAdmin(pops) ==
    LET sLen == Len(pops) IN
    IF sLen # 2 THEN FALSE
    ELSE IF pops[sLen].op # OP_CHECKTHREAD THEN FALSE
    ELSE LET threadID == asSmallInt(pops[1].op) IN
         ~(threadID < RootThread \/ threadID > IssueThread)

\* a null-data test that matches the bare OP_RETURN only
isNullDataBare(pops) == Len(pops) = 1 /\ pops[1].op = OP_RETURN

isNullData(pops) ==
    LET l == Len(pops) IN
    \/ l = 1 /\ pops[1].op = OP_RETURN
    \/ /\ l = 2
       /\ pops[1].op = OP_RETURN
       /\ pops[2].op <= OP_PUSHDATA4
       /\ pops[2].dlen <= MaxDataCarrierSize

\* the same tests with the general form tested before the 2-of-3 form
typeOfScriptGeneralFirst(pops) ==
    IF isNullData(pops) THEN NullDataTy
    ELSE IF isGeneralAztec(pops) THEN GeneralAztecTy
    ELSE IF isAztec(pops) THEN AztecTy
    ELSE IF isAztecAdmin(pops) THEN AztecAdminTy
    ELSE NonStandardTy

typeOfScript(pops) ==
    IF isNullData(pops) THEN NullDataTy
    ELSE IF isAztec(pops) THEN AztecTy
    ELSE IF isGeneralAztec(pops) THEN GeneralAztecTy
    ELSE IF isAztecAdmin(pops) THEN AztecAdminTy
    ELSE NonStandardTy

\* ParseScript (txscript/script.go): the operations decoded so far, and an
\* error when the script is malformed (a push that runs past its end)
ParseScript(s) == [pops |-> s.ops, err |-> s.bad]

GetScriptClass(s) ==
    LET p == ParseScript(s) IN
    IF p.err THEN NonStandardTy ELSE typeOfScript(p.pops)

-----------------------------------------------------------------------------
(* Admin operations *)

WspOps == {OP_WSPKEYADD, OP_WSPKEYREVOKE}

\* an extraction that only fails when the key does not parse
ExtractAdminDataKeyOnly(pops) == [op |-> pops[2].b0, err |-> ~pops[2].keyOK]

\* ExtractAdminData (txscript): the operation byte and the key, or an error:
\* the key does not parse, or the payload length does not fit the operation
ExtractAdminData(pops) ==
    LET d == pops[2] IN
    [op |-> d.b0,
     err |-> \/ ~d.keyOK
             \/ (d.b0 \in WspOps) # (d.dlen = 1 + PubKeyBytesLenCompressed + KeyIDSize)]

\* a switch whose Provision case accepts the WSP operations at any length
\* and whose Issue case accepts the issuing-key operations
ThreadSwitchLoose(pops, op, threadID) ==
    IF threadID = RootThread
    THEN op \in {OP_PROVISIONINGKEYADD, OP_PROVISIONINGKEYREVOKE,
                 OP_ISSUINGKEYADD, OP_ISSUINGKEYREVOKE}
    ELSE IF threadID = ProvisionThread
    THEN op \in {OP_VALIDATEKEYADD, OP_VALIDATEKEYREVOKE, OP_WSPKEYADD, OP_WSPKEYREVOKE}
    ELSE IF threadID = IssueThread
    THEN op \in {OP_ISSUINGKEYADD, OP_ISSUINGKEYREVOKE}
    ELSE FALSE

\* the switch of IsValidAdminOp, lines 257-280
ThreadSwitch(pops, op, threadID) ==
    IF threadID = RootThread
    THEN op \in {OP_PROVISIONINGKEYADD, OP_PROVISIONINGKEYREVOKE,
                 OP_ISSUINGKEYADD, OP_ISSUINGKEYREVOKE}
    ELSE IF threadID = ProvisionThread
    THEN \/ op \in {OP_VALIDATEKEYADD, OP_VALIDATEKEYREVOKE}
         \/ /\ op \in {OP_WSPKEYADD, OP_WSPKEYREVOKE}
            /\ pops[2].dlen = 1 + PubKeyBytesLenCompressed + KeyIDSize
    ELSE FALSE

\* a validation that looks at the key, the operation and the thread, and
\* never at the length of the payload
IsValidAdminOpAnyLength(pops, threadID) ==
    IF Len(pops) # 2 THEN FALSE
    ELSE IF pops[1].op # OP_RETURN THEN FALSE
    ELSE IF pops[2].op # OP_DATA_34 /\ pops[2].op # OP_DATA_38 THEN FALSE
    ELSE IF ~pops[2].keyOK THEN FALSE
    ELSE ThreadSwitchLoose(pops, pops[2].b0, threadID)

IsValidAdminOp(pops, threadID) ==
    IF Len(pops) # 2 THEN FALSE
    ELSE IF pops[1].op # OP_RETURN THEN FALSE
    ELSE IF pops[2].op # OP_DATA_34 /\ pops[2].op # OP_DATA_38 THEN FALSE
    ELSE LET x == ExtractAdminData(pops) IN
         IF x.err THEN FALSE ELSE ThreadSwitch(pops, x.op, threadID)

-----------------------------------------------------------------------------
(* GetAdminDetails *)

\* TypeOfScript, lines 302-304
TypeOfScript(pops) == typeOfScript(pops)

\* ExtractThreadID (txscript): the thread id the first operation of a thread
\* script decodes to; e is whether it reports an error
ExtractThreadID(pops, e) == [id |-> asSmallInt(pops[1].op), err |-> e]

\* the errors ExtractThreadID can report: none on a small integer
ThreadIDErrs(pops) ==
    IF Len(pops) >= 1 /\ isSmallInt(pops[1].op) THEN {FALSE} ELSE BOOLEAN

-----------------------------------------------------------------------------
(* ScriptClass.String *)

\* scriptClassToName, lines 56-68: element i + 1 is the name at index i
scriptClassToName ==
    <<"nonstandard", "pubkey", "pubkeyhash", "scripthash", "multisig",
      "nulldata", "aztec", "aztec", "aztecadmin">>

\* what a call of String gives: a string, or a run-time panic
StringReturns(s) == [panic |-> FALSE, str |-> s]
StringPanics == [panic |-> TRUE, str |-> ""]
NoName == StringReturns("")

\* s[i] of a Go slice: an index outside 0..len(s)-1 panics
Index(s, i) == IF i >= 0 /\ i < Len(s) THEN StringReturns(s[i + 1]) ELSE StringPanics

\* ScriptClass.String, lines 73-78
String(t) ==
    IF t > Len(scriptClassToName) \/ t < 0 THEN StringReturns("Invalid")
    ELSE Index(scriptClassToName, t)

\* return -1, nil
NoDetails == [threadID |-> -1, nil |-> TRUE, adminOutputs |-> <<>>]

\* the first test of GetAdminDetails, line 195
TooFewOutputs(tx) == Len(tx) < 1

GetAdminDetails(tx, e) ==
    IF TooFewOutputs(tx) THEN NoDetails
    ELSE LET p == ParseScript(tx[1]) IN
         IF p.err THEN NoDetails
         ELSE IF TypeOfScript(p.pops) # AztecAdminTy THEN NoDetails
         ELSE LET t == ExtractThreadID(p.pops, e) IN
              IF t.err THEN NoDetails
              ELSE IF \E i \in 2..Len(tx) : ParseScript(tx[i]).err THEN NoDetails
              ELSE [threadID |-> t.id,
                    nil |-> FALSE,
                    adminOutputs |-> [i \in 1..(Len(tx) - 1) |-> ParseScript(tx[i + 1]).pops]]

-----------------------------------------------------------------------------
(* The scripts the classifier is run on *)

AdminOpBytes ==
    {OP_PROVISIONINGKEYADD, OP_PROVISIONINGKEYREVOKE, OP_ISSUINGKEYADD,
     OP_ISSUINGKEYREVOKE, OP_VALIDATEKEYADD, OP_VALIDATEKEYREVOKE,
     OP_WSPKEYADD, OP_WSPKEYREVOKE, 0}

AdminPushes ==
    {AdminPush(OP_DATA_34, 34, a, k) : a \in AdminOpBytes, k \in BOOLEAN}
    \cup {AdminPush(OP_DATA_38, 38, a, k) : a \in AdminOpBytes, k \in BOOLEAN}

ShortAlphabet ==
    {Op(OP_RETURN), Op(OP_CHECKTHREAD), Op(OP_CHECKSAFEMULTISIG),
     SmallInt(0), SmallInt(1), SmallInt(2), SmallInt(3),
     Op(OP_RESERVED), Op(OP_1NEGATE), HashPush, KeyIDPush(65536),
     Push(OP_PUSHDATA1, MaxDataCarrierSize), Push(OP_PUSHDATA1, MaxDataCarrierSize + 1),
     AdminPush(OP_DATA_34, 34, OP_ISSUINGKEYADD, TRUE),
     AdminPush(OP_DATA_38, 38, OP_WSPKEYADD, TRUE)}

MidAlphabet ==
    {HashPush, KeyIDPush(65536), KeyIDPush(70000), SmallInt(1),
     Push(OP_DATA_33, PubKeyBytesLenCompressed), BadKeyIDPush}

SeqsUpTo(S, n) == UNION {[1..k -> S] : k \in 0..n}

ShortScripts == SeqsUpTo(ShortAlphabet, MaxShortLen)

\* nSigs  mid...  nKeys  terminator, with at most maxMid operations between
\* nSigs and nKeys
AuthScripts(maxMid) ==
    {<<f>> \o m \o <<k, t>> :
        f \in {SmallInt(1), SmallInt(2), SmallInt(3), HashPush},
        m \in SeqsUpTo(MidAlphabet, maxMid),
        k \in {SmallInt(3), SmallInt(4), SmallInt(5), HashPush},
        t \in {Op(OP_CHECKSAFEMULTISIG), Op(OP_CHECKMULTISIG)}}

\* marker  payload  (and one operation more)
AdminScripts ==
    {<<f, p>> : f \in {Op(OP_RETURN), SmallInt(1)}, p \in AdminPushes}
    \cup {<<Op(OP_RETURN), p, Op(OP_RETURN)>> : p \in AdminPushes}
    \cup {<<Op(OP_RETURN), Push(OP_DATA_33, 33)>>, <<Op(OP_RETURN)>>, <<>>,
          <<SmallInt(1), Op(OP_CHECKTHREAD)>>}

\* scripts that hold one KeyID twice, as OP_1 and as a 4-byte push of 1
SameKeyIDScripts ==
    {<<SmallInt(2), a, b, KeyIDPush(65536), SmallInt(3), Op(OP_CHECKSAFEMULTISIG)>> :
        a, b \in {SmallInt(1), KeyIDPush(1)}}
    \cup {<<SmallInt(2), HashPush, SmallInt(1), KeyIDPush(65536), KeyIDPush(1),
            SmallInt(4), Op(OP_CHECKSAFEMULTISIG)>>}

ClassifyInputs(maxMid) ==
    {[ops |-> s, bad |-> FALSE] :
        s \in ShortScripts \cup AuthScripts(maxMid) \cup AdminScripts \cup SameKeyIDScripts}
    \cup {[ops |-> s, bad |-> TRUE] : s \in ShortScripts}

AdminOpInputs == {[ops |-> s, bad |-> FALSE] : s \in AdminScripts}

\* the output scripts of the transactions GetAdminDetails is run on: the
\* three thread scripts, two scripts that end in OP_CHECKTHREAD without a
\* thread id in front, an admin action, a payment, a script that does not parse
OutputScripts ==
    {[ops |-> <<SmallInt(t), Op(OP_CHECKTHREAD)>>, bad |-> FALSE] :
        t \in {RootThread, ProvisionThread, IssueThread, IssueThread + 1}}
    \cup {[ops |-> <<Op(OP_RESERVED), Op(OP_CHECKTHREAD)>>, bad |-> FALSE],
          [ops |-> <<Op(OP_RETURN), AdminPush(OP_DATA_34, 34, OP_ISSUINGKEYADD, TRUE)>>,
           bad |-> FALSE],
          [ops |-> <<SmallInt(2), HashPush, KeyIDPush(65536), KeyIDPush(70000),
                     SmallInt(3), Op(OP_CHECKSAFEMULTISIG)>>,
           bad |-> FALSE],
          [ops |-> <<Op(OP_RETURN)>>, bad |-> TRUE]}

AdminTxInputs == SeqsUpTo(OutputScripts, MaxOuts)

ThreadArgs == {RootThread, ProvisionThread, IssueThread, IssueThread + 1, -1}

-----------------------------------------------------------------------------
(* The parts of the state a specification does not use stay at these values *)

ScriptIdle ==
    /\ script = [ops |-> <<>>, bad |-> FALSE]
    /\ called = "none"
    /\ class = NonStandardTy
    /\ threadArg = 0
    /\ valid = FALSE
    /\ txOut = <<>>
    /\ details = NoDetails
    /\ className = NoName

GenIdle ==
    /\ pc = 0
    /\ g = <<>>
    /\ outs = <<>>
    /\ testInstances = <<>>
    /\ tests = <<>>
    /\ err = "nil"
    /\ nrand = 0
    /\ params = <<>>
    /\ nbArgs = <<>>
    /\ nbRes = <<>>
    /\ answers = <<>>

SolveIdle ==
    /\ numCores = 0
    /\ solutions = {}
    /\ header = [Nonce |-> 0]
    /\ quit = FALSE
    /\ wpc = <<>>
    /\ wi = <<>>
    /\ wmsg = <<>>
    /\ mpc = "idle"
    /\ mi = 0
    /\ ret = FALSE

-----------------------------------------------------------------------------
(* SpecClassify: GetScriptClass on every input *)

InitClassify ==
    /\ script \in ClassifyInputs(MaxMid)
    /\ called = "none"
    /\ class = NonStandardTy
    /\ threadArg = 0
    /\ valid = FALSE
    /\ txOut = <<>>
    /\ details = NoDetails
    /\ className = NoName
    /\ GenIdle
    /\ SolveIdle

GetScriptClassCall ==
    /\ called = "none"
    /\ called' = "GetScriptClass"
    /\ class' = GetScriptClass(script)
    /\ UNCHANGED <<script, threadArg, valid, txOut, details, className, genVars, solveVars>>

NextClassify == GetScriptClassCall

SpecClassify == InitClassify /\ [][NextClassify]_vars

(* SpecString: ScriptClass.String on every value of the byte type *)

InitString ==
    /\ script = [ops |-> <<>>, bad |-> FALSE]
    /\ called = "none"
    /\ class \in 0..255
    /\ threadArg = 0
    /\ valid = FALSE
    /\ txOut = <<>>
    /\ details = NoDetails
    /\ className = NoName
    /\ GenIdle
    /\ SolveIdle

StringCall ==
    /\ called = "none"
    /\ called' = "String"
    /\ className' = String(class)
    /\ UNCHANGED <<script, class, threadArg, valid, txOut, details, genVars, solveVars>>

NextString == StringCall

SpecString == InitString /\ [][NextString]_vars

(* SpecAdminOp: IsValidAdminOp on every admin-shaped input and thread *)

InitAdminOp ==
    /\ script \in AdminOpInputs
    /\ called = "none"
    /\ class = NonStandardTy
    /\ threadArg = 0
    /\ valid = FALSE
    /\ txOut = <<>>
    /\ details = NoDetails
    /\ className = NoName
    /\ GenIdle
    /\ SolveIdle

IsValidAdminOpCall ==
    /\ called = "none"
    /\ \E t \in ThreadArgs :
        /\ threadArg' = t
        /\ valid' = IsValidAdminOp(script.ops, t)
    /\ called' = "IsValidAdminOp"
    /\ UNCHANGED <<script, class, txOut, details, className, genVars, solveVars>>

NextAdminOp == IsValidAdminOpCall

SpecAdminOp == InitAdminOp /\ [][NextAdminOp]_vars

(* SpecAdminDetails: GetAdminDetails on every transaction of the inputs *)

InitAdminDetails ==
    /\ script = [ops |-> <<>>, bad |-> FALSE]
    /\ called = "none"
    /\ class = NonStandardTy
    /\ threadArg = 0
    /\ valid = FALSE
    /\ txOut \in AdminTxInputs
    /\ details = NoDetails
    /\ className = NoName
    /\ GenIdle
    /\ SolveIdle

GetAdminDetailsCall ==
    /\ called = "none"
    /\ \E e \in (IF txOut = <<>> \/ ParseScript(txOut[1]).err
                 THEN {FALSE} ELSE ThreadIDErrs(ParseScript(txOut[1]).pops)) :
          details' = GetAdminDetails(txOut, e)
    /\ called' = "GetAdminDetails"
    /\ UNCHANGED <<script, class, threadArg, valid, txOut, className, genVars, solveVars>>

NextAdminDetails == GetAdminDetailsCall

SpecAdminDetails == InitAdminDetails /\ [][NextAdminDetails]_vars

-----------------------------------------------------------------------------
(* Claims about the classifier *)

Classified == called = "GetScriptClass"

\* the operations strictly between the first and the second-to-last
MidIdx(pops) == 2..(Len(pops) - 2)
NumHashPushes(pops) == Cardinality({i \in MidIdx(pops) : pops[i].dlen = 20})
NumKeyIDPushes(pops) ==
    Cardinality({i \in MidIdx(pops) : pops[i].dlen # 20 /\ isUint32(pops[i].op)})

\* C2: every script classified as an authorization script (StandardAdminAuth or
\* GeneralAdminAuth) has nSigs >= 2 and fewer 20-byte hash pushes than nSigs
\* and at least nSigs KeyID pushes between nSigs and nKeys.
C2_AuthCounts ==
    (Classified /\ class \in {AztecTy, GeneralAztecTy}) =>
        LET nSigs == asSmallInt(script.ops[1].op) IN
        /\ nSigs >= 2
        /\ NumHashPushes(script.ops) < nSigs
        /\ nSigs <= NumKeyIDPushes(script.ops)

\* an accepted m-of-n script that holds a raw key hash
C2_Witness ==
    /\ Classified
    /\ class = GeneralAztecTy
    /\ NumHashPushes(script.ops) >= 1
    /\ Len(script.ops) > 6

\* C3: GetScriptClass always yields one of the classes; a script that does not
\* parse is NonStandard; a parsed one gets the first class that matches in the
\* order NullData, StandardAdminAuth, GeneralAdminAuth, AdminOp, else NonStandard.
C3_TotalPrecedence ==
    Classified =>
        LET pops == script.ops IN
        /\ class \in {NonStandardTy, NullDataTy, AztecTy, GeneralAztecTy, AztecAdminTy}
        /\ script.bad => class = NonStandardTy
        /\ ~script.bad =>
            /\ (class = NullDataTy) = isNullData(pops)
            /\ (class = AztecTy) = (~isNullData(pops) /\ isAztec(pops))
            /\ (class = GeneralAztecTy) =
                   (~isNullData(pops) /\ ~isAztec(pops) /\ isGeneralAztec(pops))
            /\ (class = AztecAdminTy) =
                   (/\ ~isNullData(pops) /\ ~isAztec(pops)
                    /\ ~isGeneralAztec(pops) /\ isAztecAdmin(pops))

\* a script two rules match (2-of-3 is also m-of-n) gets the earlier class
C3_Witness ==
    /\ Classified
    /\ ~script.bad
    /\ class = AztecTy
    /\ isGeneralAztec(script.ops)

-----------------------------------------------------------------------------
(* Claims about IsValidAdminOp *)

\* OP_RETURN, then one push: 34 bytes for a non-WSP operation, 38 bytes for a
\* WSP operation, holding the operation byte and a compressed public key
WellFormedAdminScript(pops) ==
    /\ Len(pops) = 2
    /\ pops[1].op = OP_RETURN
    /\ pops[2].keyOK
    /\ \/ pops[2].op = OP_DATA_34 /\ pops[2].dlen = 34 /\ pops[2].b0 \notin WspOps
       \/ pops[2].op = OP_DATA_38 /\ pops[2].dlen = 38 /\ pops[2].b0 \in WspOps

ThreadOps(t) ==
    IF t = RootThread
    THEN {OP_PROVISIONINGKEYADD, OP_PROVISIONINGKEYREVOKE,
          OP_ISSUINGKEYADD, OP_ISSUINGKEYREVOKE}
    ELSE IF t = ProvisionThread
    THEN {OP_VALIDATEKEYADD, OP_VALIDATEKEYREVOKE, OP_WSPKEYADD, OP_WSPKEYREVOKE}
    ELSE {}

\* C4: on a well-formed admin action script IsValidAdminOp is true exactly when
\* the operation belongs to the thread; the Issue thread and unknown thread ids
\* accept nothing.
C4_ThreadLegality ==
    (called = "IsValidAdminOp" /\ WellFormedAdminScript(script.ops)) =>
        (valid = (script.ops[2].b0 \in ThreadOps(threadArg)))

\* a WSP operation accepted on the Provision thread
C4_Witness ==
    /\ called = "IsValidAdminOp"
    /\ WellFormedAdminScript(script.ops)
    /\ threadArg = ProvisionThread
    /\ script.ops[2].b0 = OP_WSPKEYADD
    /\ valid

-----------------------------------------------------------------------------
(* generate.go: keys, scripts and transactions *)

pubKey1 == 1
pubKey2 == 2
keyId1 == 1
keyId2 == 65536


ErrMissingTx == "ErrMissingTx"
IssueKeySet == "IssueKeySet"

\* ScriptBuilder.AddInt64 (txscript/scriptbuilder.go): OP_0, OP_1..OP_16, or
\* the shortest push of the number
ScriptNumLen(v) ==
    IF v < 128 THEN 1 ELSE IF v < 32768 THEN 2 ELSE IF v < 8388608 THEN 3 ELSE 4

AddInt64(v) ==
    IF v >= 0 /\ v <= 16 THEN SmallInt(v)
    ELSE Pop(ScriptNumLen(v), ScriptNumLen(v), v, TRUE, 0, FALSE, 0)

Script(pops) == [ops |-> pops, bad |-> FALSE]

aztecThreadScript(threadID) == Script(<<AddInt64(threadID), Op(OP_CHECKTHREAD)>>)

aztecAdminScript(opcode, pubKey) ==
    Script(<<Op(OP_RETURN),
             Pop(OP_DATA_34, 1 + PubKeyBytesLenCompressed, 0, FALSE, opcode, TRUE, pubKey)>>)

aztecAdminWSPScript(opcode, pubKey, keyID) ==
    Script(<<Op(OP_RETURN),
             Pop(OP_DATA_38, 1 + PubKeyBytesLenCompressed + KeyIDSize,
                 keyID, FALSE, opcode, TRUE, pubKey)>>)

\* payToAztecScript, standard.go lines 456-470
\* the result is (script, error); a nil script is the empty script
payToAztecScript(pubKeyHash, keyIDs) ==
    IF Len(keyIDs) # 2
    THEN [script |-> Script(<<>>), err |-> "ErrBadNumRequired"]
    ELSE [script |-> Script(<<Op(OP_2),
                              Pop(OP_DATA_20, 20, pubKeyHash, FALSE, 0, FALSE, 0),
                              AddInt64(keyIDs[1]), AddInt64(keyIDs[2]),
                              Op(OP_3), Op(OP_CHECKSAFEMULTISIG)>>),
          err |-> "nil"]

\* PayToAddrScript, standard.go lines 472-484; addr is an Aztec address
\* [pkHash, keyIDs] or NilAddress
NilAddress == [nil |-> TRUE]
PayToAddrScript(addr) ==
    IF addr = NilAddress
    THEN [script |-> Script(<<>>), err |-> "ErrUnsupportedAddress"]
    ELSE payToAztecScript(addr.pkHash, addr.keyIDs)

\* hashes are kept as the content they digest
ZeroHash == [zero |-> TRUE]
TxHash(tx) == [tx |-> tx]

calcMerkleRoot(txns) ==
    IF Len(txns) = 0 THEN ZeroHash
    ELSE [merkle |-> [i \in DOMAIN txns |-> TxHash(txns[i])]]

\* BlockHeader.BlockHash: the digest of the header; of the parent's hash it
\* keeps the merkle root
BlockHash(block) ==
    [Height |-> block.Header.Height,
     Nonce |-> block.Header.Nonce,
     MerkleRoot |-> block.Header.MerkleRoot,
     Prev |-> block.Header.PrevBlock.MerkleRoot]

TxOutOf(value, pkScript) == [Value |-> value, PkScript |-> pkScript]
NoValue == [subsidyOf |-> 0, plus |-> 0]

\* blockchain.CalcBlockSubsidy: the subsidy of a height, kept symbolic
CalcBlockSubsidy(blockHeight) == [subsidyOf |-> blockHeight, plus |-> 0]

makeSpendableOutForTx(tx, txOutIndex) ==
    [prevOut |-> [Hash |-> TxHash(tx), Index |-> txOutIndex],
     pkScript |-> tx.TxOut[1].PkScript,
     amount |-> tx.TxOut[txOutIndex + 1].Value]

makeSpendableOut(block, txIndex, txOutIndex) ==
    makeSpendableOutForTx(block.Transactions[txIndex + 1], txOutIndex)

\* wire.MaxPrevOutIndex is 0xffffffff: the index no output of a transaction has
MaxPrevOutIndex == -1

\* the pkHash is the value rand.Read produced
createCoinbaseTx(blockHeight, pkHash) ==
    [TxIn |-> <<[PreviousOutPoint |-> [Hash |-> ZeroHash, Index |-> MaxPrevOutIndex]]>>,
     TxOut |-> <<TxOutOf(CalcBlockSubsidy(blockHeight),
                         PayToAddrScript([pkHash |-> pkHash, keyIDs |-> <<keyId1, keyId2>>]).script)>>]

createSpendTx(spend, fee, pkHash) ==
    [TxIn |-> <<[PreviousOutPoint |-> spend.prevOut]>>,
     TxOut |-> <<TxOutOf(NoValue, PayToAddrScript([pkHash |-> pkHash, keyIDs |-> <<keyId1, keyId2>>]).script)>>]

createAdminTx(spend, threadID, op, pubKey) ==
    [TxIn |-> <<[PreviousOutPoint |-> spend.prevOut]>>,
     TxOut |-> <<TxOutOf(NoValue, aztecThreadScript(threadID)),
                 TxOutOf(NoValue, aztecAdminScript(op, pubKey))>>]

createWspAdminTx(spend, op, pubKey, keyID) ==
    [TxIn |-> <<[PreviousOutPoint |-> spend.prevOut]>>,
     TxOut |-> <<TxOutOf(NoValue, aztecThreadScript(ProvisionThread)),
                 TxOutOf(NoValue, aztecAdminWSPScript(op, pubKey, keyID))>>]

-----------------------------------------------------------------------------
(* The genesis block of the regression-test network: its first transaction   *)
(* pays the thread batons of Root, Provision and Issue (outputs 0, 1, 2).     *)

Genesis == <<"genesis", 0>>
BlockName(prefix, n) == <<prefix, n>>

GenesisTx ==
    [TxIn |-> <<[PreviousOutPoint |-> [Hash |-> ZeroHash, Index |-> MaxPrevOutIndex]]>>,
     TxOut |-> <<TxOutOf(NoValue, aztecThreadScript(RootThread)),
                 TxOutOf(NoValue, aztecThreadScript(ProvisionThread)),
                 TxOutOf(NoValue, aztecThreadScript(IssueThread))>>]

GenesisBlock ==
    [Header |-> [PrevBlock |-> [Height |-> 0, Nonce |-> 0,
                                MerkleRoot |-> ZeroHash, Prev |-> ZeroHash],
                 MerkleRoot |-> calcMerkleRoot(<<GenesisTx>>),
                 Height |-> 0,
                 Nonce |-> 0],
     Transactions |-> <<GenesisTx>>]

NilBlock == [nil |-> TRUE]

MapGet(m, k, default) == IF k \in DOMAIN m THEN m[k] ELSE default
MapPut(m, k, v) == [x \in DOMAIN m \cup {k} |-> IF x = k THEN v ELSE m[x]]

makeTestGenerator ==
    [tip |-> GenesisBlock,
     tipName |-> Genesis,
     tipHeight |-> 0,
     blocks |-> MapPut(<<>>, BlockHash(GenesisBlock), GenesisBlock),
     blocksByName |-> MapPut(<<>>, Genesis, GenesisBlock),
     blockHeights |-> MapPut(<<>>, Genesis, 0),
     spendableOuts |-> <<>>,
     prevCollectedHash |-> ZeroHash]

-----------------------------------------------------------------------------
(* testGenerator methods *)

\* additionalTx(tx) is the only munger Generate uses
additionalTx(tx) == [munger |-> "additionalTx", tx |-> tx]

\* mungers a caller of nextBlock can pass besides: one that writes the
\* header's merkle root, one that writes the header's nonce
setMerkleRoot(root) == [munger |-> "setMerkleRoot", root |-> root]
setNonce(nonce) == [munger |-> "setNonce", nonce |-> nonce]

ApplyMunger(f, block) ==
    IF f.munger = "additionalTx"
    THEN [block EXCEPT !.Transactions = Append(@, f.tx)]
    ELSE IF f.munger = "setMerkleRoot"
    THEN [block EXCEPT !.Header.MerkleRoot = f.root]
    ELSE IF f.munger = "setNonce"
    THEN [block EXCEPT !.Header.Nonce = f.nonce]
    ELSE block

RECURSIVE ApplyMungers(_, _, _)
ApplyMungers(mungers, i, block) ==
    IF i > Len(mungers) THEN block
    ELSE ApplyMungers(mungers, i + 1, ApplyMunger(mungers[i], block))

NoSpend == [nil |-> TRUE]

\* nextBlock up to the mungers, lines 496-533: the block as it is created.
\* r, r + 1 are the values of the two rand.Read calls.
InitialBlock(gen, spend, r) ==
    LET nextHeight == gen.tipHeight + 1
        cb == createCoinbaseTx(nextHeight, r)
        coinbaseTx == IF spend = NoSpend THEN cb
                      ELSE [cb EXCEPT !.TxOut[1].Value.plus = @ + 1]
        txns == IF spend = NoSpend THEN <<coinbaseTx>>
                ELSE <<coinbaseTx, createSpendTx(spend, 1, r + 1)>>
    IN [Header |-> [PrevBlock |-> BlockHash(gen.tip),
                    MerkleRoot |-> calcMerkleRoot(txns),
                    Height |-> nextHeight,
                    Nonce |-> 0],
        Transactions |-> txns]

\* a draft whose merkle root is recomputed whatever the mungers wrote
DraftBlockAlwaysRecompute(gen, spend, mungers, r) ==
    LET munged == ApplyMungers(mungers, 1, InitialBlock(gen, spend, r))
    IN [munged EXCEPT !.Header.MerkleRoot = calcMerkleRoot(munged.Transactions)]

\* nextBlock up to the solver, lines 496-547: the block before it is solved
DraftBlock(gen, spend, mungers, r) ==
    LET block == InitialBlock(gen, spend, r)
        curMerkleRoot == block.Header.MerkleRoot
        munged == ApplyMungers(mungers, 1, block)
    IN IF munged.Header.MerkleRoot = curMerkleRoot
       THEN [munged EXCEPT !.Header.MerkleRoot = calcMerkleRoot(munged.Transactions)]
       ELSE munged

\* lines 555-563; nextHeight is g.tipHeight + 1 of line 499
RegisterBlock(gen, blockName, block) ==
    LET nextHeight == gen.tipHeight + 1
    IN [gen EXCEPT !.blocks = MapPut(@, BlockHash(block), block),
                   !.blocksByName = MapPut(@, blockName, block),
                   !.blockHeights = MapPut(@, blockName, nextHeight),
                   !.tip = block,
                   !.tipName = blockName,
                   !.tipHeight = nextHeight]

\* the panic value of lines 552-553:
\* fmt.Sprintf("Unable to solve block at height %d", nextHeight)
UnableToSolve(nextHeight) ==
    "Unable to solve block at height " \o ToString(nextHeight)

\* a nextBlock that solves every block, whatever nonce the mungers wrote
nextBlockAlwaysSolve(gen, blockName, spend, mungers, r, res) ==
    LET draft == DraftBlock(gen, spend, mungers, r)
        block == [draft EXCEPT !.Header.Nonce = res.nonce]
    IN [solved |-> TRUE,
        panic |-> ~res.found,
        r |-> UnableToSolve(gen.tipHeight + 1),
        block |-> block,
        g |-> IF res.found THEN RegisterBlock(gen, blockName, block) ELSE gen]

\* nextBlock, lines 496-564; res is what solveBlock answers when it is
\* called: whether it found a nonce, and the nonce it left in the header.
\* The result tells whether solveBlock was called, whether nextBlock
\* panicked (line 552) and with which value r, the block and the generator
\* afterwards.
nextBlock(gen, blockName, spend, mungers, r, res) ==
    LET draft == DraftBlock(gen, spend, mungers, r)
        curNonce == 0
        solved == draft.Header.Nonce = curNonce
        block == IF solved /\ res.found
                 THEN [draft EXCEPT !.Header.Nonce = res.nonce]
                 ELSE draft
        panic == solved /\ ~res.found
    IN [solved |-> solved,
        panic |-> panic,
        r |-> UnableToSolve(gen.tipHeight + 1),
        block |-> block,
        g |-> IF panic THEN gen ELSE RegisterBlock(gen, blockName, block)]

\* a setTip that forgets the block it leaves
setTipForgetting(gen, blockName) ==
    [gen EXCEPT !.tip = MapGet(gen.blocksByName, blockName, NilBlock),
                !.tipName = blockName,
                !.tipHeight = MapGet(gen.blockHeights, blockName, 0),
                !.blocksByName = [n \in DOMAIN @ \ {gen.tipName} |-> @[n]]]

\* a setTip that leaves tipHeight as it is
setTipKeepingHeight(gen, blockName) ==
    [gen EXCEPT !.tip = MapGet(gen.blocksByName, blockName, NilBlock),
                !.tipName = blockName]

setTip(gen, blockName) ==
    [gen EXCEPT !.tip = MapGet(gen.blocksByName, blockName, NilBlock),
                !.tipName = blockName,
                !.tipHeight = MapGet(gen.blockHeights, blockName, 0)]

saveTipCoinbaseOut(gen) ==
    [gen EXCEPT !.spendableOuts = Append(@, makeSpendableOut(gen.tip, 0, 0)),
                !.prevCollectedHash = BlockHash(gen.tip)]

\* a collection that takes the output saved last
newestCoinbaseOut(gen) ==
    [op |-> gen.spendableOuts[Len(gen.spendableOuts)],
     g |-> [gen EXCEPT !.spendableOuts = SubSeq(@, 1, Len(@) - 1)]]

\* oldestCoinbaseOut: the output returned, and the generator after it
oldestCoinbaseOut(gen) ==
    [op |-> gen.spendableOuts[1],
     g |-> [gen EXCEPT !.spendableOuts = Tail(@)]]

-----------------------------------------------------------------------------
(* Generate: the helper closures, lines 636-706 *)

KeySetTypes == {"RootKeySet", "ProvisionKeySet", IssueKeySet, "ValidateKeySet"}

\* chaincfg.RegressionNetParams: the admin key sets and the KeyID map of the
\* genesis configuration; its keys are not the test keys pubKey1, pubKey2
GenesisKeys(n) == [i \in 1..n |-> 10 + i]

TestKeyIds == {[keyID |-> keyId1, key |-> pubKey1], [keyID |-> keyId2, key |-> pubKey2]}

ParamChoices ==
    {[AdminKeySets |-> [t \in KeySetTypes |-> GenesisKeys(n)], WspKeyIdMap |-> w] :
        n \in 0..MaxGenesisKeys, w \in {{}, TestKeyIds}}

acceptBlock(gen, blockName, block, isMainChain, isOrphan) ==
    [kind |-> "AcceptedBlock", Name |-> blockName, Block |-> BlockHash(block),
     Height |-> MapGet(gen.blockHeights, blockName, 0),
     IsMainChain |-> isMainChain, IsOrphan |-> isOrphan,
     AdminKeySets |-> params.AdminKeySets, WspKeyIdMap |-> params.WspKeyIdMap]

rejectBlock(gen, blockName, block, code) ==
    [kind |-> "RejectedBlock", Name |-> blockName, Block |-> BlockHash(block),
     Height |-> MapGet(gen.blockHeights, blockName, 0), RejectCode |-> code]

expectTipBlock(gen, blockName, block) ==
    [kind |-> "ExpectedTip", Name |-> blockName, Block |-> BlockHash(block),
     Height |-> MapGet(gen.blockHeights, blockName, 0)]

acceptBlockwithAdminKeys(gen, blockName, block, isMainChain, isOrphan, adminKeySets) ==
    [kind |-> "AcceptedBlock", Name |-> blockName, Block |-> BlockHash(block),
     Height |-> MapGet(gen.blockHeights, blockName, 0),
     IsMainChain |-> isMainChain, IsOrphan |-> isOrphan,
     AdminKeySets |-> adminKeySets, WspKeyIdMap |-> params.WspKeyIdMap]

acceptBlockwithWspKeys(gen, blockName, block, isMainChain, isOrphan, adminKey, keyID) ==
    [kind |-> "AcceptedBlock", Name |-> blockName, Block |-> BlockHash(block),
     Height |-> MapGet(gen.blockHeights, blockName, 0),
     IsMainChain |-> isMainChain, IsOrphan |-> isOrphan,
     AdminKeySets |-> params.AdminKeySets, WspKeyIdMap |-> params.WspKeyIdMap]

\* each returns the test group it appends to tests
accepted(gen) == <<acceptBlock(gen, gen.tipName, gen.tip, TRUE, FALSE)>>

\* an outcome that expects adminKeys in the reverse order
acceptedWithAdminKeysReversed(gen, keySetType, adminKeys) ==
    LET rev == [i \in DOMAIN adminKeys |-> adminKeys[Len(adminKeys) + 1 - i]]
        adminKeySets == [params.AdminKeySets EXCEPT ![keySetType] = @ \o rev]
    IN <<acceptBlockwithAdminKeys(gen, gen.tipName, gen.tip, TRUE, FALSE, adminKeySets)>>

\* an outcome that expects the genesis key sets whatever adminKeys is
acceptedIgnoringAdminKeys(gen, keySetType, adminKeys) ==
    <<acceptBlockwithAdminKeys(gen, gen.tipName, gen.tip, TRUE, FALSE, params.AdminKeySets)>>

\* adminKeySets is a deep copy of the genesis sets, with adminKeys appended
acceptedWithAdminKeys(gen, keySetType, adminKeys) ==
    LET adminKeySets == [params.AdminKeySets EXCEPT ![keySetType] = @ \o adminKeys]
    IN <<acceptBlockwithAdminKeys(gen, gen.tipName, gen.tip, TRUE, FALSE, adminKeySets)>>

acceptedWithWspKey(gen, adminKey, keyID) ==
    <<acceptBlockwithWspKeys(gen, gen.tipName, gen.tip, TRUE, FALSE, adminKey, keyID)>>

\* an outcome that expects the new block itself to be the tip
sideChainExpectingOwnTip(gen, tipName) ==
    <<acceptBlock(gen, gen.tipName, gen.tip, FALSE, FALSE),
      expectTipBlock(gen, gen.tipName, gen.tip)>>

acceptedToSideChainWithExpectedTip(gen, tipName) ==
    <<acceptBlock(gen, gen.tipName, gen.tip, FALSE, FALSE),
      expectTipBlock(gen, tipName, gen.blocksByName[tipName])>>

\* an outcome that accepts the block instead
rejectedAsAccepted(gen, code) == <<acceptBlock(gen, gen.tipName, gen.tip, TRUE, FALSE)>>

rejected(gen, code) == <<rejectBlock(gen, gen.tipName, gen.tip, code)>>

-----------------------------------------------------------------------------
(* Generate: the statements of its body in order, lines 708-871.  An index   *)
(* of outs is the Go index; a transaction is named by its local variable.    *)

SNextBlock(name, spend, txs) == [op |-> "nextBlock", name |-> name, spend |-> spend, txs |-> txs]
SSetTip(name) == [op |-> "setTip", name |-> name]
SAccepted == [op |-> "accepted"]
SAcceptedWithAdminKeys(keys) ==
    [op |-> "acceptedWithAdminKeys", keySetType |-> IssueKeySet, keys |-> keys]
SAcceptedWithWspKey(key, keyID) == [op |-> "acceptedWithWspKey", key |-> key, keyID |-> keyID]
SSideChain(tipName) == [op |-> "acceptedToSideChainWithExpectedTip", tipName |-> tipName]
SRejected(code) == [op |-> "rejected", code |-> code]

\* lines 708-718
ThreadOuts == [i \in 1..3 |-> [op |-> "appendOut", index |-> i - 1]]

\* lines 729-737
MatureLoop ==
    [k \in 1..(3 * coinbaseMaturity) |->
        LET i == (k - 1) \div 3
            j == (k - 1) % 3
        IN IF j = 0 THEN SNextBlock(BlockName("bm", i), -1, <<>>)
           ELSE IF j = 1 THEN [op |-> "saveTipCoinbaseOut"]
           ELSE [op |-> "appendInstance"]]

\* lines 740-743
CollectLoop == [k \in 1..coinbaseMaturity |-> [op |-> "collect"]]

\* lines 761-871
Body ==
    << SNextBlock(BlockName("b", 1), 3, <<>>), SAccepted,
       SNextBlock(BlockName("b", 2), 4, <<>>), SAccepted,
       SNextBlock(BlockName("b", 3), -1, <<"issueKeyAddTx">>),
       SAcceptedWithAdminKeys(<<pubKey1>>),
       SNextBlock(BlockName("b", 4), -1, <<"issueKeyAddTx2">>),
       SAcceptedWithAdminKeys(<<pubKey1, pubKey2>>),
       SNextBlock(BlockName("b", 5), -1, <<>>),
       SAcceptedWithAdminKeys(<<pubKey1, pubKey2>>),
       SNextBlock(BlockName("b", 6), -1, <<"issueKeyRevokeTx1", "issueKeyRevokeTx2">>),
       SAccepted,
       SNextBlock(BlockName("b", 7), -1, <<"wspKeyIdAddTx">>),
       SAcceptedWithWspKey(pubKey1, keyId2),
       SNextBlock(BlockName("b", 8), 7, <<>>), SAccepted,
       SNextBlock(BlockName("b", 9), 8, <<>>), SAccepted,
       SNextBlock(BlockName("b", 10), -1, <<"adminKeyAddTx">>),
       SAcceptedWithAdminKeys(<<pubKey1>>),
       SSetTip(BlockName("b", 9)),
       SNextBlock(BlockName("b", 11), 9, <<>>),
       SSideChain(BlockName("b", 10)),
       SNextBlock(BlockName("b", 12), 10, <<>>), SAccepted,
       SSetTip(BlockName("b", 10)),
       SNextBlock(BlockName("b", 13), 10, <<>>),
       SSideChain(BlockName("b", 12)),
       SNextBlock(BlockName("b", 14), 11, <<>>),
       SAcceptedWithAdminKeys(<<pubKey1>>),
       SSetTip(BlockName("b", 13)),
       SNextBlock(BlockName("b", 15), 10, <<>>),
       SSideChain(BlockName("b", 14)),
       SNextBlock(BlockName("b", 16), 12, <<>>),
       SRejected(ErrMissingTx),
       [op |-> "return"] >>

Program ==
    ThreadOuts \o MatureLoop \o <<[op |-> "appendTests"]>> \o CollectLoop \o Body

\* the admin transactions Generate creates, lines 768-814
issueKeyAddTx == createAdminTx(outs[1], 0, OP_ISSUINGKEYADD, pubKey1)
issueKeyAddTx2 ==
    createAdminTx(makeSpendableOutForTx(issueKeyAddTx, 0), 0, OP_ISSUINGKEYADD, pubKey2)
issueKeyRevokeTx1 ==
    createAdminTx(makeSpendableOutForTx(issueKeyAddTx2, 0), 0, OP_ISSUINGKEYREVOKE, pubKey1)
issueKeyRevokeTx2 ==
    createAdminTx(makeSpendableOutForTx(issueKeyRevokeTx1, 0), 0, OP_ISSUINGKEYREVOKE, pubKey2)
wspKeyIdAddTx == createWspAdminTx(outs[7], OP_WSPKEYADD, pubKey1, keyId2)
adminKeyAddTx ==
    createAdminTx(makeSpendableOutForTx(issueKeyRevokeTx2, 0), 0, OP_ISSUINGKEYADD, pubKey1)

TxByName(n) ==
    CASE n = "issueKeyAddTx" -> issueKeyAddTx
      [] n = "issueKeyAddTx2" -> issueKeyAddTx2
      [] n = "issueKeyRevokeTx1" -> issueKeyRevokeTx1
      [] n = "issueKeyRevokeTx2" -> issueKeyRevokeTx2
      [] n = "wspKeyIdAddTx" -> wspKeyIdAddTx
      [] n = "adminKeyAddTx" -> adminKeyAddTx

\* a deferred function that sets the error and keeps the tests built so far
recoverKeepingTests(ts, r) == [tests |-> ts, err |-> r]

\* the deferred function of Generate, lines 603-616, on the panic value r (a
\* string): tests = nil, err = errors.New(r)
recover(ts, r) == [tests |-> <<>>, err |-> r]

\* the nonce is an unsigned integer of NonceBits bits
NonceModulus == 2 ^ NonceBits
MaxUint32 == NonceModulus - 1

\* what solveBlock can answer: no solution, or a solution with any nonce of
\* [1, MaxUint32]
SolveOutcomes ==
    {[found |-> FALSE, nonce |-> 0]}
    \cup {[found |-> TRUE, nonce |-> n] : n \in 1..MaxUint32}

\* the number of places of a sequence of answers where the answer differs
\* from the one before
NonceChanges(ans) ==
    Cardinality({i \in 1..(Len(ans) - 1) : ans[i] # ans[i + 1]})

-----------------------------------------------------------------------------
(* SpecGenerate: one action per kind of statement *)

At(op) == pc \in 1..Len(Program) /\ Program[pc].op = op
Stmt == Program[pc]

InitGenerate ==
    /\ pc = 1
    /\ g = makeTestGenerator
    /\ outs = <<>>
    /\ testInstances = <<>>
    /\ tests = <<>>
    /\ err = "nil"
    /\ nrand = 0
    /\ params \in ParamChoices
    /\ nbArgs = <<>>
    /\ nbRes = <<>>
    /\ answers = <<>>
    /\ ScriptIdle
    /\ SolveIdle

AppendOut ==
    /\ At("appendOut")
    /\ outs' = Append(outs, makeSpendableOut(g.tip, 0, Stmt.index))
    /\ pc' = pc + 1
    /\ UNCHANGED <<g, testInstances, tests, err, nrand, params, nbArgs, nbRes, answers, scriptVars, solveVars>>

\* nextBlock: solveBlock answers for every header on its own, with any
\* nonce or with none; the panic of line 552 is recovered by Generate's
\* deferred function, lines 603-616, which returns (nil, err). A run is
\* followed as long as the answers change at most MaxNonceChanges times.
\* (nb is bound to the one result of the call.)
NextBlock ==
    /\ At("nextBlock")
    /\ LET spend == IF Stmt.spend < 0 THEN NoSpend ELSE outs[Stmt.spend + 1]
           mungers == [i \in DOMAIN Stmt.txs |-> additionalTx(TxByName(Stmt.txs[i]))]
       IN \E res \in SolveOutcomes :
            \E nb \in {nextBlock(g, Stmt.name, spend, mungers, nrand, res)} :
            LET ans == IF nb.solved /\ res.found
                       THEN Append(answers, res.nonce)
                       ELSE answers
            IN /\ NonceChanges(ans) <= MaxNonceChanges
               /\ answers' = ans
               /\ nrand' = nrand + (IF spend = NoSpend THEN 1 ELSE 2)
               /\ IF nb.panic
                  THEN /\ tests' = recover(tests, nb.r).tests
                       /\ err' = recover(tests, nb.r).err
                       /\ pc' = 0
                       /\ UNCHANGED g
                  ELSE /\ g' = nb.g
                       /\ pc' = pc + 1
                       /\ UNCHANGED <<tests, err>>
    /\ UNCHANGED <<outs, testInstances, params, nbArgs, nbRes, scriptVars, solveVars>>

SetTip ==
    /\ At("setTip")
    /\ g' = setTip(g, Stmt.name)
    /\ pc' = pc + 1
    /\ UNCHANGED <<outs, testInstances, tests, err, nrand, params, nbArgs, nbRes, answers, scriptVars, solveVars>>

SaveTipCoinbaseOut ==
    /\ At("saveTipCoinbaseOut")
    /\ g' = saveTipCoinbaseOut(g)
    /\ pc' = pc + 1
    /\ UNCHANGED <<outs, testInstances, tests, err, nrand, params, nbArgs, nbRes, answers, scriptVars, solveVars>>

AppendInstance ==
    /\ At("appendInstance")
    /\ testInstances' = Append(testInstances, acceptBlock(g, g.tipName, g.tip, TRUE, FALSE))
    /\ pc' = pc + 1
    /\ UNCHANGED <<g, outs, tests, err, nrand, params, nbArgs, nbRes, answers, scriptVars, solveVars>>

AppendTests ==
    /\ At("appendTests")
    /\ tests' = Append(tests, testInstances)
    /\ pc' = pc + 1
    /\ UNCHANGED <<g, outs, testInstances, err, nrand, params, nbArgs, nbRes, answers, scriptVars, solveVars>>

Collect ==
    /\ At("collect")
    /\ LET r == oldestCoinbaseOut(g)
       IN /\ g' = r.g
          /\ outs' = Append(outs, r.op)
    /\ pc' = pc + 1
    /\ UNCHANGED <<testInstances, tests, err, nrand, params, nbArgs, nbRes, answers, scriptVars, solveVars>>

\* accepted, acceptedWithAdminKeys, acceptedWithWspKey,
\* acceptedToSideChainWithExpectedTip, rejected: each appends one group
Outcome ==
    /\ \/ At("accepted") /\ tests' = Append(tests, accepted(g))
       \/ /\ At("acceptedWithAdminKeys")
          /\ tests' = Append(tests, acceptedWithAdminKeys(g, Stmt.keySetType, Stmt.keys))
       \/ /\ At("acceptedWithWspKey")
          /\ tests' = Append(tests, acceptedWithWspKey(g, Stmt.key, Stmt.keyID))
       \/ /\ At("acceptedToSideChainWithExpectedTip")
          /\ tests' = Append(tests, acceptedToSideChainWithExpectedTip(g, Stmt.tipName))
       \/ At("rejected") /\ tests' = Append(tests, rejected(g, Stmt.code))
    /\ pc' = pc + 1
    /\ UNCHANGED <<g, outs, testInstances, err, nrand, params, nbArgs, nbRes, answers, scriptVars, solveVars>>

\* return tests, nil
Return ==
    /\ At("return")
    /\ err' = "nil"
    /\ pc' = 0
    /\ UNCHANGED <<g, outs, testInstances, tests, nrand, params, nbArgs, nbRes, answers, scriptVars, solveVars>>

NextGenerate ==
    \/ AppendOut
    \/ NextBlock
    \/ SetTip
    \/ SaveTipCoinbaseOut
    \/ AppendInstance
    \/ AppendTests
    \/ Collect
    \/ Outcome
    \/ Return

SpecGenerate == InitGenerate /\ [][NextGenerate]_vars

-----------------------------------------------------------------------------
(* Reading the chain the generator has built: the path of a block, and the    *)
(* unspent outputs after connecting the blocks of a path in order.           *)

RECURSIVE ChainTo(_, _)
ChainTo(gen, block) ==
    IF block.Header.Height = 0 THEN <<block>>
    ELSE Append(ChainTo(gen, gen.blocks[block.Header.PrevBlock]), block)

IsCoinBase(tx) ==
    /\ Len(tx.TxIn) = 1
    /\ tx.TxIn[1].PreviousOutPoint.Index = MaxPrevOutIndex
    /\ tx.TxIn[1].PreviousOutPoint.Hash = ZeroHash

Entries(tx) ==
    {[prevOut |-> [Hash |-> TxHash(tx), Index |-> i - 1], pkScript |-> tx.TxOut[i].PkScript] :
        i \in DOMAIN tx.TxOut}

SpentBy(tx) == {tx.TxIn[i].PreviousOutPoint : i \in DOMAIN tx.TxIn}

\* the transactions of a path with their positions, block by block
TxsOf(chain) ==
    UNION {{[b |-> i, t |-> j, tx |-> chain[i].Transactions[j]] :
                j \in DOMAIN chain[i].Transactions} : i \in DOMAIN chain}

Before(p, q) == p.b < q.b \/ (p.b = q.b /\ p.t < q.t)

\* every input of a path spends an output an earlier transaction of the path
\* has created and no other transaction of the path spends
ChainValid(chain) ==
    LET all == TxsOf(chain)
        spenders == {q \in all : ~IsCoinBase(q.tx)}
    IN \A q \in spenders : \A o \in SpentBy(q.tx) :
          /\ \E p \in all : Before(p, q) /\ o \in {e.prevOut : e \in Entries(p.tx)}
          /\ \A r \in spenders : o \in SpentBy(r.tx) => r = q

\* the outputs of a path no transaction of the path spends
UtxoOf(chain) ==
    LET all == TxsOf(chain)
        spent == UNION {SpentBy(q.tx) : q \in {r \in all : ~IsCoinBase(r.tx)}}
    IN {e \in UNION {Entries(p.tx) : p \in all} : e.prevOut \notin spent}

Threads == {RootThread, ProvisionThread, IssueThread}

Batons(utxo, t) ==
    {e \in utxo : isAztecAdmin(e.pkScript.ops) /\ asSmallInt(e.pkScript.ops[1].op) = t}

LastGroup == tests[Len(tests)]

\* the outcome Generate has just declared: in the maturity loop the instance
\* appended last, afterwards the first instance of the group appended last
JustDeclared ==
    IF Len(tests) >= 2 THEN {LastGroup[1]}
    ELSE IF tests = <<>> /\ testInstances # <<>>
    THEN {testInstances[Len(testInstances)]}
    ELSE {}

JustConnected == {t \in JustDeclared : t.kind = "AcceptedBlock" /\ t.IsMainChain}

\* C1: after every block built with nextBlock and declared connected to the
\* active chain, the unspent outputs of that chain hold exactly one thread
\* baton for each of the threads Root, Provision and Issue
C1_OneBatonPerThread ==
    \A inst \in JustConnected :
        \A t \in Threads :
            Cardinality(Batons(UtxoOf(ChainTo(g, g.blocks[inst.Block])), t)) = 1

-----------------------------------------------------------------------------
(* C6: the fork b9 -> b10 / b9 -> b11 -> b12 / b10 -> b13 -> b14 *)

HasGroup(name) == \E k \in DOMAIN tests : tests[k][1].Name = name
GroupOf(name) == tests[CHOOSE k \in DOMAIN tests : tests[k][1].Name = name]
SeqRange(q) == {q[i] : i \in DOMAIN q}
OnPathOf(name, anc) ==
    \E i \in DOMAIN ChainTo(g, g.blocksByName[name]) :
        ChainTo(g, g.blocksByName[name])[i] = g.blocksByName[anc]

\* C6: the Issue key set expected at b10 is the genesis set followed by
\* pubKey1; at b12, whose longer branch leaves b10 out, it is the genesis set,
\* without pubKey1; at b14, which makes the branch of b10 the longer one again,
\* it is the set expected at b10
C6_IssueSetFollowsActiveChain ==
    /\ HasGroup(BlockName("b", 10)) =>
          /\ GroupOf(BlockName("b", 10))[1].kind = "AcceptedBlock"
          /\ GroupOf(BlockName("b", 10))[1].IsMainChain
          /\ GroupOf(BlockName("b", 10))[1].AdminKeySets[IssueKeySet]
                = params.AdminKeySets[IssueKeySet] \o <<pubKey1>>
    /\ HasGroup(BlockName("b", 12)) =>
          /\ GroupOf(BlockName("b", 12))[1].kind = "AcceptedBlock"
          /\ GroupOf(BlockName("b", 12))[1].IsMainChain
          /\ ~OnPathOf(BlockName("b", 12), BlockName("b", 10))
          /\ g.blockHeights[BlockName("b", 12)] > g.blockHeights[BlockName("b", 10)]
          /\ GroupOf(BlockName("b", 12))[1].AdminKeySets[IssueKeySet]
                = params.AdminKeySets[IssueKeySet]
          /\ pubKey1 \notin SeqRange(GroupOf(BlockName("b", 12))[1].AdminKeySets[IssueKeySet])
    /\ HasGroup(BlockName("b", 14)) =>
          /\ GroupOf(BlockName("b", 14))[1].kind = "AcceptedBlock"
          /\ GroupOf(BlockName("b", 14))[1].IsMainChain
          /\ OnPathOf(BlockName("b", 14), BlockName("b", 10))
          /\ g.blockHeights[BlockName("b", 14)] > g.blockHeights[BlockName("b", 12)]
          /\ GroupOf(BlockName("b", 14))[1].AdminKeySets[IssueKeySet]
                = GroupOf(BlockName("b", 10))[1].AdminKeySets[IssueKeySet]

\* the outcome of b14 has been declared, b10 and b12 before it
C6_Witness ==
    /\ HasGroup(BlockName("b", 10))
    /\ HasGroup(BlockName("b", 12))
    /\ HasGroup(BlockName("b", 14))
    /\ pubKey1 \in SeqRange(GroupOf(BlockName("b", 14))[1].AdminKeySets[IssueKeySet])

-----------------------------------------------------------------------------
(* C7: a validator that follows the longest valid chain and keeps the block   *)
(* it saw first on a tie.  Its tip after a number of submitted blocks is the  *)
(* first submitted one among the highest blocks whose path is valid.          *)

\* positions of the blocks submitted by the groups before group k
SubmittedBefore(k) ==
    {p \in UNION {{[grp |-> i, idx |-> j] : j \in DOMAIN tests[i]} : i \in 1..(k - 1)} :
        tests[p.grp][p.idx].kind # "ExpectedTip"}

InstAt(p) == tests[p.grp][p.idx]
Earlier(p, q) == p.grp < q.grp \/ (p.grp = q.grp /\ p.idx < q.idx)

RECURSIVE BestAt(_, _)
BestAt(S, h) ==
    LET c == {p \in S : InstAt(p).Height = h
                        /\ ChainValid(ChainTo(g, g.blocks[InstAt(p).Block]))}
    IN IF h = 0 THEN GenesisBlock
       ELSE IF c # {} THEN g.blocks[InstAt(CHOOSE p \in c : \A q \in c : q = p \/ Earlier(p, q)).Block]
       ELSE BestAt(S, h - 1)

MaxHeight(S) ==
    IF S = {} THEN 0
    ELSE CHOOSE h \in {InstAt(p).Height : p \in S} : \A p \in S : InstAt(p).Height <= h

ValidatorTipBefore(k) == BestAt(SubmittedBefore(k), MaxHeight(SubmittedBefore(k)))

\* what the validator answers to a block when its tip is tip
ValidatorAnswer(tip, block) ==
    IF block.Header.Height <= tip.Header.Height THEN "side"
    ELSE IF ChainValid(ChainTo(g, block)) THEN "main"
    ELSE "rejected"

LastBlock == g.blocks[LastGroup[1].Block]
LastAnswer == ValidatorAnswer(ValidatorTipBefore(Len(tests)), LastBlock)

\* C7: the outcome Generate declares for a block is the answer of the
\* longest-chain, first-seen validator: a block whose branch is not strictly
\* longer than the active chain is Accepted with IsMainChain false, together
\* with an ExpectedTip that names the unchanged active tip; a block that makes
\* its (valid) branch strictly longer is Accepted with IsMainChain true
C7_AgreesWithLongestChain ==
    Len(tests) >= 2 =>
        /\ LastAnswer = "side" =>
              /\ Len(LastGroup) = 2
              /\ LastGroup[1].kind = "AcceptedBlock"
              /\ ~LastGroup[1].IsMainChain
              /\ LastGroup[2].kind = "ExpectedTip"
              /\ LastGroup[2].Block = BlockHash(ValidatorTipBefore(Len(tests)))
              /\ g.blocksByName[LastGroup[2].Name] = ValidatorTipBefore(Len(tests))
        /\ LastAnswer = "main" =>
              /\ Len(LastGroup) = 1
              /\ LastGroup[1].kind = "AcceptedBlock"
              /\ LastGroup[1].IsMainChain
        /\ LastGroup[1].kind = "AcceptedBlock" =>
              (LastGroup[1].IsMainChain <=> LastAnswer = "main")

\* b13 has been declared: as high as the active tip b12, so on a side chain
C7_Witness ==
    /\ Len(tests) >= 2
    /\ LastGroup[1].Name = BlockName("b", 13)
    /\ LastAnswer = "side"
    /\ LastGroup[2].Name = BlockName("b", 12)

-----------------------------------------------------------------------------
(* C8: the double spend *)

Siblings(block) ==
    {b \in {g.blocks[h] : h \in DOMAIN g.blocks} :
        b # block /\ b.Header.Height > 0 /\ b.Header.PrevBlock = block.Header.PrevBlock}

SpentIn(block) ==
    UNION {SpentBy(block.Transactions[j]) :
              j \in {i \in DOMAIN block.Transactions : ~IsCoinBase(block.Transactions[i])}}

Returned == pc = 0 /\ err = "nil" /\ tests # <<>>

\* C8 as stated: the block Generate declares Rejected with ErrMissingTx has a
\* sibling that spends an output it spends too
C8_RejectedSiblingSpendsSame ==
    Returned =>
        /\ LastGroup[1].kind = "RejectedBlock"
        /\ LastGroup[1].RejectCode = ErrMissingTx
        /\ \E b \in Siblings(LastBlock) : SpentIn(b) \cap SpentIn(LastBlock) # {}

\* C8 as the code has it: Generate returns its tests with a nil error, the
\* last of them a Rejected outcome with ErrMissingTx; the rejected block has
\* no sibling and spends a fresh output, its branch is strictly longer than
\* the active chain, and its parent spends an output that the parent's own
\* parent has spent already
C8_DoubleSpendOnBranchRejected ==
    Returned =>
        /\ LastGroup[1].kind = "RejectedBlock"
        /\ LastGroup[1].RejectCode = ErrMissingTx
        /\ Len(LastGroup) = 1
        /\ Siblings(LastBlock) = {}
        /\ LastAnswer = "rejected"
        /\ LET parent == g.blocks[LastBlock.Header.PrevBlock]
               grand == g.blocks[parent.Header.PrevBlock]
           IN /\ SpentIn(parent) \cap SpentIn(grand) # {}
              /\ SpentIn(LastBlock) \cap (SpentIn(parent) \cup SpentIn(grand)) = {}
              /\ \A b \in Siblings(parent) : SpentIn(b) \cap SpentIn(parent) = {}

C8_Witness ==
    /\ Returned
    /\ LastGroup[1].Name = BlockName("b", 16)
    /\ LastGroup[1].kind = "RejectedBlock"

-----------------------------------------------------------------------------
(* solveBlock, generate.go lines 340-393.  The workers are numbered as the    *)
(* spawning loop numbers them, 0..numCores-1.  Nonce arithmetic is unsigned   *)
(* and wraps at NonceModulus.                                                 *)

Workers == 0..(MaxCores - 1)

\* lines 371-380
startNonce == 1
stopNonce == MaxUint32
noncesPerCore(n) == ((stopNonce - startNonce) % NonceModulus) \div n
\* ranges that start at nonce 0 instead of startNonce
rangeStartFromZero(n, i) == (noncesPerCore(n) * i) % NonceModulus
rangeStart(n, i) == (startNonce + noncesPerCore(n) * i) % NonceModulus
\* ranges without the extension of the last one to stopNonce
rangeStopNoLast(n, i) == (startNonce + noncesPerCore(n) * (i + 1) - 1) % NonceModulus
rangeStop(n, i) ==
    IF i = n - 1 THEN stopNonce
    ELSE (startNonce + noncesPerCore(n) * (i + 1) - 1) % NonceModulus

\* the loop condition without the test that detects the wrap of i
LoopCondNoWrapTest(i, start, stop) == i <= stop

\* the condition of the solver's for loop, line 355
LoopCond(i, start, stop) == i >= start /\ i <= stop

\* the hash of the header with nonce i is at most the target, line 362
MeetsTarget(i) == i \in solutions

sbResult(found, nonce) == [found |-> found, nonce |-> nonce]

SolutionSets == {S \in SUBSET (0..MaxUint32) : Cardinality(S) <= MaxSolutions}

InitSolve ==
    /\ numCores \in 1..MaxCores
    /\ solutions \in SolutionSets
    /\ header = [Nonce |-> 0]
    /\ quit = FALSE
    /\ wpc = [w \in 0..(numCores - 1) |-> "none"]
    /\ wi = [w \in 0..(numCores - 1) |-> 0]
    /\ wmsg = [w \in 0..(numCores - 1) |-> sbResult(FALSE, 0)]
    /\ mpc = "spawn"
    /\ mi = 0
    /\ ret = FALSE
    /\ ScriptIdle
    /\ GenIdle

Running(w) == w \in DOMAIN wpc /\ wpc[w] = "loop"

\* go solver(*header, rangeStart, rangeStop), lines 375-382
Spawn ==
    /\ mpc = "spawn"
    /\ wpc' = [wpc EXCEPT ![mi] = "loop"]
    /\ wi' = [wi EXCEPT ![mi] = rangeStart(numCores, mi)]
    /\ IF mi + 1 < numCores
       THEN mi' = mi + 1 /\ mpc' = mpc
       ELSE mi' = 0 /\ mpc' = "recv"
    /\ UNCHANGED <<numCores, solutions, header, quit, wmsg, ret, scriptVars, genVars>>

\* case <-quit: return
SolverQuit(w) ==
    /\ Running(w)
    /\ LoopCond(wi[w], rangeStart(numCores, w), rangeStop(numCores, w))
    /\ quit
    /\ wpc' = [wpc EXCEPT ![w] = "done"]
    /\ UNCHANGED <<numCores, solutions, header, quit, wi, wmsg, mpc, mi, ret,
                   scriptVars, genVars>>

\* a solver that is handed the caller's header instead of a copy of it:
\* hdr.Nonce = uint64(i) writes the caller's header
SolverTestSharedHeader(w) ==
    /\ Running(w)
    /\ LoopCond(wi[w], rangeStart(numCores, w), rangeStop(numCores, w))
    /\ ~quit
    /\ header' = [header EXCEPT !.Nonce = wi[w]]
    /\ IF MeetsTarget(wi[w])
       THEN /\ wpc' = [wpc EXCEPT ![w] = "send"]
            /\ wmsg' = [wmsg EXCEPT ![w] = sbResult(TRUE, wi[w])]
            /\ wi' = wi
       ELSE /\ wi' = [wi EXCEPT ![w] = (wi[w] + 1) % NonceModulus]
            /\ UNCHANGED <<wpc, wmsg>>
    /\ UNCHANGED <<numCores, solutions, quit, mpc, mi, ret, scriptVars, genVars>>

\* default: test the nonce i; on a hit go to send {true, i}, else i++
SolverTest(w) ==
    /\ Running(w)
    /\ LoopCond(wi[w], rangeStart(numCores, w), rangeStop(numCores, w))
    /\ ~quit
    /\ IF MeetsTarget(wi[w])
       THEN /\ wpc' = [wpc EXCEPT ![w] = "send"]
            /\ wmsg' = [wmsg EXCEPT ![w] = sbResult(TRUE, wi[w])]
            /\ wi' = wi
       ELSE /\ wi' = [wi EXCEPT ![w] = (wi[w] + 1) % NonceModulus]
            /\ UNCHANGED <<wpc, wmsg>>
    /\ UNCHANGED <<numCores, solutions, header, quit, mpc, mi, ret, scriptVars, genVars>>

\* the loop has ended: go to send {false, 0}, line 368
SolverExhausted(w) ==
    /\ Running(w)
    /\ ~LoopCond(wi[w], rangeStart(numCores, w), rangeStop(numCores, w))
    /\ wpc' = [wpc EXCEPT ![w] = "send"]
    /\ wmsg' = [wmsg EXCEPT ![w] = sbResult(FALSE, 0)]
    /\ UNCHANGED <<numCores, solutions, header, quit, wi, mpc, mi, ret, scriptVars, genVars>>

\* result := <-results meets the send of worker w (results is unbuffered),
\* lines 383-392
Receive(w) ==
    /\ mpc = "recv"
    /\ w \in DOMAIN wpc /\ wpc[w] = "send"
    /\ wpc' = [wpc EXCEPT ![w] = "done"]
    /\ IF wmsg[w].found
       THEN /\ quit' = TRUE
            /\ header' = [header EXCEPT !.Nonce = wmsg[w].nonce]
            /\ ret' = TRUE
            /\ mpc' = "returned"
            /\ mi' = mi
       ELSE /\ mi' = mi + 1
            /\ mpc' = IF mi + 1 < numCores THEN "recv" ELSE "returned"
            /\ UNCHANGED <<quit, header, ret>>
    /\ UNCHANGED <<numCores, solutions, wi, wmsg, scriptVars, genVars>>

solver(w) == SolverQuit(w) \/ SolverTest(w) \/ SolverExhausted(w)

NextSolve ==
    \/ Spawn
    \/ \E w \in Workers : SolverQuit(w)
    \/ \E w \in Workers : SolverTest(w)
    \/ \E w \in Workers : SolverExhausted(w)
    \/ \E w \in Workers : Receive(w)

SpecSolve == InitSolve /\ [][NextSolve]_vars

\* the Go scheduler runs every goroutine that can take a step
FairSolve ==
    /\ SpecSolve
    /\ WF_vars(Spawn)
    /\ \A w \in Workers : WF_vars(solver(w))
    /\ WF_vars(\E w \in Workers : Receive(w))

\* C9: once solveBlock has seen a success and returned, every worker
\* eventually terminates
C9_WorkersTerminate ==
    (mpc = "returned" /\ ret) ~> (\A w \in DOMAIN wpc : wpc[w] = "done")

\* C10: every call of solveBlock eventually returns
C10_SolveBlockReturns == <>(mpc = "returned")

\* no nonce meets the target: solveBlock has returned false after numCores
\* failure reports, the counter of the last worker having wrapped to 0
C10_Witness ==
    /\ mpc = "returned"
    /\ ~ret
    /\ solutions = {}
    /\ numCores >= 2
    /\ mi = numCores
    /\ wi[numCores - 1] = 0
    /\ \A w \in DOMAIN wpc : wpc[w] = "done"

-----------------------------------------------------------------------------
(* solveBlock: the nonces it tests and the answer it gives *)

\* the nonces worker w is given
RangeOf(w) ==
    {n \in 0..MaxUint32 : rangeStart(numCores, w) <= n /\ n <= rangeStop(numCores, w)}

\* C11: solveBlock never tests nonce 0 and never produces it: a worker about
\* to test a nonce holds a nonce of [1, MaxUint32], a success report carries
\* one, and when solveBlock has returned true the header's nonce is one
C11_NonceNeverZero ==
    /\ \A w \in DOMAIN wpc :
          /\ (wpc[w] = "loop"
              /\ LoopCond(wi[w], rangeStart(numCores, w), rangeStop(numCores, w)))
                => wi[w] \in 1..MaxUint32
          /\ (wpc[w] = "send" /\ wmsg[w].found) => wmsg[w].nonce \in 1..MaxUint32
    /\ (mpc = "returned" /\ ret) => header.Nonce \in 1..MaxUint32

\* nonce 0 meets the target and is the only one that does: the counter of the
\* last worker has wrapped to 0 and solveBlock has returned false
C11_Witness ==
    /\ solutions = {0}
    /\ mpc = "returned"
    /\ ~ret
    /\ header.Nonce = 0
    /\ wi[numCores - 1] = 0

\* C12: solveBlock returns true exactly when some nonce of [1, MaxUint32]
\* meets the target; the nonce it then leaves in the header meets the target
\* and lies in the range of a worker; it returns false only after each of the
\* numCores workers has reported failure
C12_TrueIffSolvable ==
    mpc = "returned" =>
        /\ ret <=> (solutions \cap (1..MaxUint32) # {})
        /\ ret => /\ MeetsTarget(header.Nonce)
                  /\ \E w \in DOMAIN wpc :
                        /\ header.Nonce \in RangeOf(w)
                        /\ wpc[w] = "done"
                        /\ wmsg[w] = sbResult(TRUE, header.Nonce)
        /\ ~ret => /\ mi = numCores
                   /\ \A w \in DOMAIN wpc : wpc[w] = "done" /\ wmsg[w] = sbResult(FALSE, 0)

\* the only nonce that meets the target is the last one, MaxUint32, in the
\* range of the last of several workers; solveBlock has returned true
C12_Witness ==
    /\ mpc = "returned"
    /\ ret
    /\ numCores >= 2
    /\ solutions = {MaxUint32}
    /\ header.Nonce = MaxUint32

-----------------------------------------------------------------------------
(* The class of the admin action scripts *)

\* a parsed script of two operations: OP_RETURN, then one push of 34 or of 38
\* bytes
AdminActionShape(s) ==
    /\ ~s.bad
    /\ Len(s.ops) = 2
    /\ s.ops[1].op = OP_RETURN
    /\ \/ s.ops[2].op = OP_DATA_34 /\ s.ops[2].dlen = 34
       \/ s.ops[2].op = OP_DATA_38 /\ s.ops[2].dlen = 38

AcceptedOnSomeThread(s) ==
    ~s.bad /\ \E t \in ThreadArgs : IsValidAdminOp(s.ops, t)

\* C13 as stated: every admin action script, and so every script that
\* IsValidAdminOp accepts for some thread, is classified AztecAdminTy
C13_ActionScriptIsAdminOp ==
    (Classified /\ (AdminActionShape(script) \/ AcceptedOnSomeThread(script)))
        => class = AztecAdminTy

\* C13 amended: every admin action script, and so every script that
\* IsValidAdminOp accepts for some thread, is classified NullDataTy; the
\* scripts classified AztecAdminTy are the two-operation scripts that end in
\* OP_CHECKTHREAD
C13_ActionScriptIsNullData ==
    Classified =>
        /\ (AdminActionShape(script) \/ AcceptedOnSomeThread(script))
              => class = NullDataTy
        /\ class = AztecAdminTy
              => Len(script.ops) = 2 /\ script.ops[2].op = OP_CHECKTHREAD

\* a WSP key addition that the Provision thread accepts, classified
C13_Witness ==
    /\ Classified
    /\ AdminActionShape(script)
    /\ script.ops[2].b0 = OP_WSPKEYADD
    /\ IsValidAdminOp(script.ops, ProvisionThread)
    /\ class = NullDataTy

-----------------------------------------------------------------------------
(* The shape of the authorization scripts *)

\* a push of a 20-byte key hash
IsHashPush(pop) == pop.dlen = 20

\* what the loop of isGeneralAztec counts as a KeyID: an operation that is
\* not a 20-byte push and decodes as a 32-bit integer
IsKeyIDPush(pop) == pop.dlen # 20 /\ isUint32(pop.op) /\ ~asInt32(pop).err

\* C14: in every script classified AztecTy or GeneralAztecTy each operation
\* strictly between the first (nSigs) and the second-to-last (nKeys) is a
\* 20-byte hash push or a KeyID push, and the number of hash pushes plus the
\* number of KeyID pushes is nKeys
C14_MidOpsAreKeys ==
    (Classified /\ class \in {AztecTy, GeneralAztecTy}) =>
        LET pops == script.ops
            nKeys == asSmallInt(pops[Len(pops) - 1].op)
        IN /\ \A i \in MidIdx(pops) : IsHashPush(pops[i]) \/ IsKeyIDPush(pops[i])
           /\ Cardinality({i \in MidIdx(pops) : IsHashPush(pops[i])})
                + Cardinality({i \in MidIdx(pops) : IsKeyIDPush(pops[i])}) = nKeys

\* C15: every script classified AztecTy has exactly 6 operations: OP_2, one
\* 20-byte hash push, two KeyID pushes, OP_3, OP_CHECKSAFEMULTISIG, which is
\* the shape ExtractPkScriptAddrs reads (operation 1 as the key hash,
\* operations 2 and 3 as the KeyIDs)
C15_StandardShape ==
    (Classified /\ class = AztecTy) =>
        LET pops == script.ops IN
        /\ Len(pops) = 6
        /\ pops[1].op = OP_2
        /\ IsHashPush(pops[2])
        /\ IsKeyIDPush(pops[3])
        /\ IsKeyIDPush(pops[4])
        /\ pops[5].op = OP_3
        /\ pops[6].op = OP_CHECKSAFEMULTISIG

-----------------------------------------------------------------------------
(* The transactions GetAdminDetails accepts *)

\* the output parses and is a thread script
IsBaton(s) == ~ParseScript(s).err /\ TypeOfScript(ParseScript(s).pops) = AztecAdminTy

\* C16: a transaction is accepted as an admin transaction only if its first
\* output is a thread baton and it has at least one further output; a
\* transaction whose only output is a baton, or whose first output is no
\* baton, or one of whose outputs does not parse, gets -1, nil
C16_AdminTxNeedsAction ==
    called = "GetAdminDetails" =>
        /\ details # NoDetails =>
              /\ Len(txOut) >= 2
              /\ IsBaton(txOut[1])
              /\ details.threadID = asSmallInt(txOut[1].ops[1].op)
        /\ (\/ Len(txOut) = 1 /\ IsBaton(txOut[1])
            \/ Len(txOut) >= 1 /\ ~IsBaton(txOut[1])
            \/ \E i \in DOMAIN txOut : ParseScript(txOut[i]).err)
              => details = NoDetails

-----------------------------------------------------------------------------
(* IsValidAdminOp: the length of the payload against its operation *)

\* OP_RETURN, then one push
ActionScript(pops) == Len(pops) = 2 /\ pops[1].op = OP_RETURN

\* C17: an admin action script whose operation is a WSP operation and whose
\* payload is not 38 bytes long is rejected by IsValidAdminOp on every thread
C17_WspNeedsLength38 ==
    (/\ called = "IsValidAdminOp"
     /\ ActionScript(script.ops)
     /\ script.ops[2].b0 \in WspOps
     /\ script.ops[2].dlen # 38) => ~valid

\* a 34-byte payload with a key that parses and the operation OP_WSPKEYADD,
\* handed to the Provision thread
C17_Witness ==
    /\ called = "IsValidAdminOp"
    /\ ActionScript(script.ops)
    /\ script.ops[2].b0 = OP_WSPKEYADD
    /\ script.ops[2].dlen = 34
    /\ script.ops[2].keyOK
    /\ threadArg = ProvisionThread
    /\ ~valid

\* C18: an admin action script whose operation is not a WSP operation and
\* whose payload is 38 bytes long is rejected by IsValidAdminOp on every thread
C18_Length38NeedsWsp ==
    (/\ called = "IsValidAdminOp"
     /\ ActionScript(script.ops)
     /\ script.ops[2].b0 \notin WspOps
     /\ script.ops[2].dlen = 38) => ~valid

\* a 38-byte payload with a key that parses and the operation
\* OP_ISSUINGKEYADD, handed to the Root thread
C18_Witness ==
    /\ called = "IsValidAdminOp"
    /\ ActionScript(script.ops)
    /\ script.ops[2].b0 = OP_ISSUINGKEYADD
    /\ script.ops[2].dlen = 38
    /\ script.ops[2].keyOK
    /\ threadArg = RootThread
    /\ ~valid

-----------------------------------------------------------------------------
(* The key-governance state a path of blocks leads to: the state of the       *)
(* genesis configuration with the admin actions of the path applied in order  *)

\* the admin actions of a path with their positions: the outputs after the
\* first of the transactions whose first output is a thread script
ActionsOf(chain) ==
    UNION {{[b |-> p.b, t |-> p.t, o |-> i, pop |-> p.tx.TxOut[i].PkScript.ops[2]] :
                i \in {j \in 2..Len(p.tx.TxOut) :
                          LET s == p.tx.TxOut[j].PkScript IN
                          ~s.bad /\ ActionScript(s.ops)}} :
           p \in {q \in TxsOf(chain) :
                     /\ Len(q.tx.TxOut) >= 2
                     /\ IsBaton(q.tx.TxOut[1].PkScript)}}

ActionBefore(p, q) ==
    p.b < q.b \/ (p.b = q.b /\ (p.t < q.t \/ (p.t = q.t /\ p.o < q.o)))

Without(q, k) == SelectSeq(q, LAMBDA x : x # k)

\* the key set an operation changes
KeySetOf(op) ==
    IF op \in {OP_ISSUINGKEYADD, OP_ISSUINGKEYREVOKE} THEN IssueKeySet
    ELSE IF op \in {OP_PROVISIONINGKEYADD, OP_PROVISIONINGKEYREVOKE} THEN "ProvisionKeySet"
    ELSE "ValidateKeySet"

\* one action applied: an Add appends the key, a Revoke removes it; a WSP
\* Add maps the KeyID to the key, a WSP Revoke removes the mapping
Applied(st, pop) ==
    IF pop.b0 = OP_WSPKEYADD
    THEN [st EXCEPT !.WspKeyIdMap =
             {e \in @ : e.keyID # pop.num} \cup {[keyID |-> pop.num, key |-> pop.key]}]
    ELSE IF pop.b0 = OP_WSPKEYREVOKE
    THEN [st EXCEPT !.WspKeyIdMap = {e \in @ : e.keyID # pop.num}]
    ELSE IF pop.b0 \in {OP_ISSUINGKEYADD, OP_PROVISIONINGKEYADD, OP_VALIDATEKEYADD}
    THEN [st EXCEPT !.AdminKeySets[KeySetOf(pop.b0)] = Append(@, pop.key)]
    ELSE [st EXCEPT !.AdminKeySets[KeySetOf(pop.b0)] = Without(@, pop.key)]

RECURSIVE AppliedAll(_, _)
AppliedAll(st, acts) ==
    IF acts = {} THEN st
    ELSE LET a == CHOOSE x \in acts : \A y \in acts : y = x \/ ActionBefore(x, y)
         IN AppliedAll(Applied(st, a.pop), acts \ {a})

StateAfter(chain) ==
    AppliedAll([AdminKeySets |-> params.AdminKeySets, WspKeyIdMap |-> params.WspKeyIdMap],
               ActionsOf(chain))

\* C20: the snapshot of every outcome that Generate declares Accepted on the
\* main chain (the admin key sets and the WSP KeyID map) is the state the
\* admin actions on the path from genesis to that block lead to; from b7 on,
\* whose transaction is WspKeyAdd(pubKey1, keyId), the snapshots of the
\* main-chain blocks hold the mapping of keyId to pubKey1
C20_SnapshotFollowsPath ==
    \A inst \in JustConnected :
        LET st == StateAfter(ChainTo(g, g.blocks[inst.Block])) IN
        /\ inst.AdminKeySets = st.AdminKeySets
        /\ inst.WspKeyIdMap = st.WspKeyIdMap
        /\ (/\ BlockName("b", 7) \in DOMAIN g.blocksByName
            /\ OnPathOf(inst.Name, BlockName("b", 7))) =>
              [keyID |-> keyId2, key |-> pubKey1] \in inst.WspKeyIdMap

-----------------------------------------------------------------------------
(* SpecNextBlock: one call of nextBlock on the generator makeTestGenerator    *)
(* returns, for every choice of the spent output, of the mungers and of the  *)
(* nonces that solve the block                                               *)

GenesisOut == makeSpendableOut(GenesisBlock, 0, 0)

SpendChoices == {NoSpend, GenesisOut}

\* a nonce a munger writes
MungedNonce == 3

MungerChoices ==
    {additionalTx(createAdminTx(GenesisOut, RootThread, OP_ISSUINGKEYADD, pubKey1)),
     setNonce(0), setNonce(MungedNonce), setMerkleRoot(ZeroHash)}
    \cup {setMerkleRoot(InitialBlock(makeTestGenerator, s, 0).Header.MerkleRoot) :
             s \in SpendChoices}

\* solveBlock as nextBlock sees it: it finds one of the nonces of
\* [1, MaxUint32] that meet the target and leaves it in the header, or there
\* is none and it returns false
SolveResults(sols) ==
    IF sols \cap (1..MaxUint32) = {}
    THEN {sbResult(FALSE, 0)}
    ELSE {sbResult(TRUE, n) : n \in sols \cap (1..MaxUint32)}

InitNextBlock ==
    /\ pc = 0
    /\ g = makeTestGenerator
    /\ outs = <<>>
    /\ testInstances = <<>>
    /\ tests = <<>>
    /\ err = "nil"
    /\ nrand = 0
    /\ params = <<>>
    /\ nbArgs \in {[spend |-> s, mungers |-> m] :
                      s \in SpendChoices, m \in SeqsUpTo(MungerChoices, MaxMungers)}
    /\ nbRes = <<>>
    /\ answers = <<>>
    /\ numCores = 0
    /\ solutions \in {S \in SolutionSets : Cardinality(S) <= 1}
    /\ header = [Nonce |-> 0]
    /\ quit = FALSE
    /\ wpc = <<>>
    /\ wi = <<>>
    /\ wmsg = <<>>
    /\ mpc = "idle"
    /\ mi = 0
    /\ ret = FALSE
    /\ ScriptIdle

NextBlockCall ==
    /\ nbRes = <<>>
    /\ \E res \in SolveResults(solutions) :
          LET nb == nextBlock(g, BlockName("b", 1), nbArgs.spend, nbArgs.mungers, nrand, res)
          IN /\ nbRes' = [solved |-> nb.solved, panic |-> nb.panic, block |-> nb.block]
             /\ g' = nb.g
    /\ nrand' = nrand + (IF nbArgs.spend = NoSpend THEN 1 ELSE 2)
    /\ UNCHANGED <<pc, outs, testInstances, tests, err, params, nbArgs, answers,
                   scriptVars, solveVars>>

NextNextBlock == NextBlockCall

SpecNextBlock == InitNextBlock /\ [][NextNextBlock]_vars

-----------------------------------------------------------------------------
(* SpecChain: any sequence of nextBlock and setTip calls on a fresh           *)
(* generator; the names of the blocks are b1, b2, ... in the order they are   *)
(* built, setTip is handed the name of a block that exists, and a panic of    *)
(* nextBlock ends the sequence                                                *)

ChainMungers == {<<>>, <<setNonce(MungedNonce)>>}

InitChain ==
    /\ pc = 0
    /\ g = makeTestGenerator
    /\ outs = <<>>
    /\ testInstances = <<>>
    /\ tests = <<>>
    /\ err = "nil"
    /\ nrand = 0
    /\ params = <<>>
    /\ nbArgs = <<>>
    /\ nbRes = <<>>
    /\ answers = <<>>
    /\ ScriptIdle
    /\ SolveIdle

ChainNextBlock ==
    /\ err = "nil"
    /\ Cardinality(DOMAIN g.blocksByName) <= MaxChainBlocks
    /\ \E spend \in SpendChoices, mungers \in ChainMungers,
          res \in SolveOutcomes :
          LET blockName == BlockName("b", Cardinality(DOMAIN g.blocksByName))
              nb == nextBlock(g, blockName, spend, mungers, nrand, res)
          IN /\ g' = nb.g
             /\ err' = IF nb.panic THEN nb.r ELSE err
             /\ nrand' = nrand + (IF spend = NoSpend THEN 1 ELSE 2)
    /\ UNCHANGED <<pc, outs, testInstances, tests, params, nbArgs, nbRes, answers,
                   scriptVars, solveVars>>

ChainSetTip ==
    /\ err = "nil"
    /\ \E blockName \in DOMAIN g.blocksByName :
          /\ blockName # g.tipName
          /\ g' = setTip(g, blockName)
    /\ UNCHANGED <<pc, outs, testInstances, tests, err, nrand, params, nbArgs, nbRes, answers,
                   scriptVars, solveVars>>

NextChain == ChainNextBlock \/ ChainSetTip

SpecChain == InitChain /\ [][NextChain]_vars

-----------------------------------------------------------------------------
(* nextBlock and its mungers *)

\* nextBlock has returned a block
Built == nbRes # <<>> /\ ~nbRes.panic

\* the positions of the mungers that write a field of the header
Writes(kind) == {i \in DOMAIN nbArgs.mungers : nbArgs.mungers[i].munger = kind}
LastWrite(kind) == CHOOSE i \in Writes(kind) : \A j \in Writes(kind) : j <= i

\* the block before the mungers, and its transactions followed by the ones
\* the mungers add, in order
BlockBefore == InitialBlock(makeTestGenerator, nbArgs.spend, 0)
AddedTxs ==
    LET adds == SelectSeq(nbArgs.mungers, LAMBDA f : f.munger = "additionalTx")
    IN [i \in DOMAIN adds |-> adds[i].tx]
FinalTxs == BlockBefore.Transactions \o AddedTxs

\* the merkle root the mungers leave in the header differs from the one
\* before them
RootChanged ==
    /\ Writes("setMerkleRoot") # {}
    /\ nbArgs.mungers[LastWrite("setMerkleRoot")].root # BlockBefore.Header.MerkleRoot

\* the nonce the mungers leave in the header
NonceAfterMungers ==
    IF Writes("setNonce") = {} THEN 0 ELSE nbArgs.mungers[LastWrite("setNonce")].nonce

\* C21: after the mungers, when the merkle root of the header is the one
\* it had before them, the block's merkle root is computed from the final
\* list of transactions; when a munger has left another value, that value
\* is the block's merkle root, whether it fits the transactions or not
C21_MerkleRootSentinel ==
    Built =>
        /\ nbRes.block.Transactions = FinalTxs
        /\ ~RootChanged => nbRes.block.Header.MerkleRoot = calcMerkleRoot(FinalTxs)
        /\ RootChanged =>
              nbRes.block.Header.MerkleRoot
                  = nbArgs.mungers[LastWrite("setMerkleRoot")].root

\* a munger has added a transaction and a munger has written the zero hash:
\* the block keeps the zero hash, which is not the root of its transactions
C21_Witness ==
    /\ Built
    /\ Len(AddedTxs) = 1
    /\ RootChanged
    /\ nbRes.block.Header.MerkleRoot = ZeroHash
    /\ nbRes.block.Header.MerkleRoot # calcMerkleRoot(nbRes.block.Transactions)
    /\ g.tip = nbRes.block

\* C22: nextBlock calls solveBlock exactly when the nonce of the header is
\* 0 after the mungers; a nonce other than 0 that a munger has written is
\* the nonce of the block; a block whose nonce the mungers have left at 0
\* gets a nonce other than 0 that meets the target
C22_NonceSentinel ==
    nbRes # <<>> =>
        /\ nbRes.solved <=> NonceAfterMungers = 0
        /\ (Built /\ NonceAfterMungers # 0) =>
              nbRes.block.Header.Nonce = NonceAfterMungers
        /\ (Built /\ NonceAfterMungers = 0) =>
              /\ nbRes.block.Header.Nonce \in 1..MaxUint32
              /\ MeetsTarget(nbRes.block.Header.Nonce)

\* no nonce solves the block and a munger has written a nonce: the block is
\* built with that nonce, without solveBlock
C22_Witness ==
    /\ Built
    /\ solutions = {}
    /\ NonceAfterMungers = MungedNonce
    /\ ~nbRes.solved
    /\ nbRes.block.Header.Nonce = MungedNonce
    /\ g.blocksByName[BlockName("b", 1)] = nbRes.block

-----------------------------------------------------------------------------
(* What Generate returns *)

\* C23: Generate returns either a list of tests that is not nil with a nil
\* error, or a nil list with an error; a panic inside (nextBlock that cannot
\* solve its block) is turned into that error, and the test groups built
\* before it are dropped
C23_AllOrNothing ==
    pc = 0 =>
        \/ err = "nil" /\ tests # <<>>
        \/ err # "nil" /\ tests = <<>>

\* nextBlock has panicked after b3 was built and declared: Generate has
\* returned the error and no tests
C23_Witness ==
    /\ pc = 0
    /\ err = UnableToSolve(g.tipHeight + 1)
    /\ tests = <<>>
    /\ BlockName("b", 3) \in DOMAIN g.blocksByName
    /\ Len(testInstances) = coinbaseMaturity

-----------------------------------------------------------------------------
(* setTip *)

\* C24: setTip(name), for the name of a block built before, makes the tip,
\* the tip name and the tip height those recorded for that block and changes
\* nothing else: the blocks registered by hash, by name and their heights,
\* the blocks of the branch that is left included, and the queue of
\* spendable outputs stay as they were
C24_SetTipFrame ==
    [][At("setTip") =>
          /\ Stmt.name \in DOMAIN g.blocksByName
          /\ g'.tip = g.blocksByName[Stmt.name]
          /\ g'.tipName = Stmt.name
          /\ g'.tipHeight = g.blockHeights[Stmt.name]
          /\ g'.tipHeight = g'.tip.Header.Height
          /\ g'.blocks = g.blocks
          /\ g'.blocksByName = g.blocksByName
          /\ g'.blockHeights = g.blockHeights
          /\ g'.spendableOuts = g.spendableOuts
          /\ g'.prevCollectedHash = g.prevCollectedHash
          /\ BlockHash(g.tip) \in DOMAIN g'.blocks
          /\ UNCHANGED <<outs, testInstances, tests, err, nrand, params>>]_vars

\* setTip("b9") has just run: b9 is the tip, and b10, the tip it has left,
\* is registered by name and by hash
C24_Witness ==
    /\ pc \in 2..Len(Program)
    /\ Program[pc - 1].op = "setTip"
    /\ g.tipName = BlockName("b", 9)
    /\ g.tip = g.blocksByName[BlockName("b", 9)]
    /\ g.tipHeight < g.blockHeights[BlockName("b", 10)]
    /\ BlockHash(g.blocksByName[BlockName("b", 10)]) \in DOMAIN g.blocks

-----------------------------------------------------------------------------
(* The coinbase outputs Generate collects *)

\* the outputs collected with oldestCoinbaseOut so far (outs without the
\* three thread outputs), and those followed by the ones still in the queue
CollectedOuts ==
    IF Len(outs) <= 3 THEN <<>> ELSE [i \in 1..(Len(outs) - 3) |-> outs[i + 3]]
SavedOuts == CollectedOuts \o g.spendableOuts

\* the statements of Generate that have run
Executed(op) == {k \in 1..(pc - 1) : Program[k].op = op}

\* the first statement after the collection loop
AfterCollect == Len(ThreadOuts) + Len(MatureLoop) + 1 + Len(CollectLoop) + 1

\* C25: the outputs saved with saveTipCoinbaseOut are, oldest first, the
\* coinbase outputs of bm0, bm1, ... of blocks that are built, one for each
\* saveTipCoinbaseOut that has run; oldestCoinbaseOut hands them out in that
\* order, each once, and only after all coinbaseMaturity blocks are saved;
\* after the collection exactly coinbaseMaturity outputs have been handed
\* out and the queue is empty
C25_CoinbaseOutsCollected ==
    /\ Len(SavedOuts) <= coinbaseMaturity
    /\ \A i \in DOMAIN SavedOuts :
          /\ BlockName("bm", i - 1) \in DOMAIN g.blocksByName
          /\ SavedOuts[i] = makeSpendableOut(g.blocksByName[BlockName("bm", i - 1)], 0, 0)
          /\ IsCoinBase(g.blocksByName[BlockName("bm", i - 1)].Transactions[1])
          /\ \A j \in DOMAIN SavedOuts : j # i => SavedOuts[j].prevOut # SavedOuts[i].prevOut
    /\ pc >= 1 => Len(SavedOuts) = Cardinality(Executed("saveTipCoinbaseOut"))
    /\ pc >= 1 => Len(CollectedOuts) = Cardinality(Executed("collect"))
    /\ CollectedOuts # <<>> => Len(SavedOuts) = coinbaseMaturity
    /\ pc >= AfterCollect =>
          /\ Len(CollectedOuts) = coinbaseMaturity
          /\ g.spendableOuts = <<>>

\* the collection loop has just ended
C25_Witness ==
    /\ pc = AfterCollect
    /\ Len(CollectedOuts) = coinbaseMaturity
    /\ g.spendableOuts = <<>>
    /\ CollectedOuts[1]
          = makeSpendableOut(g.blocksByName[BlockName("bm", 0)], 0, 0)
    /\ CollectedOuts[coinbaseMaturity]
          = makeSpendableOut(g.blocksByName[BlockName("bm", coinbaseMaturity - 1)], 0, 0)

-----------------------------------------------------------------------------
(* The Issue keys of b3 .. b6 *)

IssueSetAt(n) == GroupOf(BlockName("b", n))[1].AdminKeySets[IssueKeySet]
GenesisIssueSet == params.AdminKeySets[IssueKeySet]

\* transaction t of block b n is an admin transaction on the Root thread
\* with the one action op on key
RootAction(n, t, op, key) ==
    LET tx == g.blocksByName[BlockName("b", n)].Transactions[t] IN
    /\ Len(tx.TxOut) = 2
    /\ tx.TxOut[1].PkScript = aztecThreadScript(RootThread)
    /\ tx.TxOut[2].PkScript.ops[2].b0 = op
    /\ tx.TxOut[2].PkScript.ops[2].key = key

\* key1 stands before key2 in the key set
InOrder(set, key1, key2) ==
    \E i, j \in DOMAIN set : i < j /\ set[i] = key1 /\ set[j] = key2

C26_WitnessEmptyGenesis ==
    /\ GenesisIssueSet = <<>>
    /\ HasGroup(BlockName("b", 6))
    /\ IssueSetAt(4) = <<pubKey1, pubKey2>>
    /\ IssueSetAt(5) = <<pubKey1, pubKey2>>
    /\ IssueSetAt(6) = <<>>

-----------------------------------------------------------------------------
(* Decoding an authorization script and encoding it again *)

MidOps(pops) == SubSeq(pops, 2, Len(pops) - 2)

\* the signature count, the 20-byte hashes, the KeyIDs and the key count a
\* script is read as
Decoded(pops) ==
    LET hs == SelectSeq(MidOps(pops), IsHashPush)
        ks == SelectSeq(MidOps(pops), IsKeyIDPush)
    IN [nSigs |-> asSmallInt(pops[1].op),
        hashes |-> [i \in DOMAIN hs |-> hs[i].num],
        keyIDs |-> [i \in DOMAIN ks |-> asInt32(ks[i]).val],
        nKeys |-> asSmallInt(pops[Len(pops) - 1].op)]

\* push(nSigs) hashes... keyIDs... push(nKeys) OP_CHECKSAFEMULTISIG
Encoded(d) ==
    <<SmallInt(d.nSigs)>>
    \o [i \in DOMAIN d.hashes |-> Pop(OP_DATA_20, 20, d.hashes[i], FALSE, 0, FALSE, 0)]
    \o [i \in DOMAIN d.keyIDs |-> AddInt64(d.keyIDs[i])]
    \o <<SmallInt(d.nKeys), Op(OP_CHECKSAFEMULTISIG)>>

\* C27: a script classified GeneralAztecTy, decoded into its signature
\* count, hashes, KeyIDs and key count and encoded again, is classified
\* GeneralAztecTy
C27_RoundTrip ==
    (Classified /\ class = GeneralAztecTy) =>
        GetScriptClass(Script(Encoded(Decoded(script.ops)))) = GeneralAztecTy

-----------------------------------------------------------------------------
(* The nonce ranges of the workers *)

\* the nonces of the range worker i of n is given
NonceRange(n, i) == rangeStart(n, i)..rangeStop(n, i)

\* the ranges of n workers follow one another from startNonce to stopNonce,
\* no two of them share a nonce, and together they are [1, MaxUint32]
RangesPartition(n) ==
    LET ranges == [i \in 0..(n - 1) |-> NonceRange(n, i)]
    IN  /\ rangeStart(n, 0) = 1
        /\ rangeStop(n, n - 1) = MaxUint32
        /\ \A i \in 0..(n - 2) :
              rangeStart(n, i + 1) = (rangeStop(n, i) + 1) % NonceModulus
        /\ \A i, j \in 0..(n - 1) : i # j => ranges[i] \cap ranges[j] = {}
        /\ UNION {ranges[i] : i \in 0..(n - 1)} = 1..MaxUint32

\* C28: the ranges handed to the workers are contiguous, pairwise disjoint
\* and cover exactly [1, MaxUint32], the last worker taking the remainder:
\* for the number of workers solveBlock runs with, in every state, and,
\* where solveBlock computes the ranges (before it starts a worker), for
\* every number of workers n >= 1 up to MaxUint32
C28_RangesPartition ==
    /\ numCores >= 1 => RangesPartition(numCores)
    /\ (mpc = "spawn" /\ mi = 0) => \A n \in 1..MaxUint32 : RangesPartition(n)

\* MaxCores workers have been started, each at the start of its range, and
\* the range of the last one is longer than noncesPerCore
C28_Witness ==
    /\ numCores = MaxCores
    /\ mpc = "recv"
    /\ \A w \in DOMAIN wpc : wpc[w] = "loop" /\ wi[w] = rangeStart(numCores, w)
    /\ RangesPartition(numCores)
    /\ Cardinality(NonceRange(numCores, numCores - 1)) > noncesPerCore(numCores)

-----------------------------------------------------------------------------
(* The keys of an authorization script: no KeyID twice, hashes first *)

KeyIDAt(pops, i) == asInt32(pops[i]).val

\* C29: in a script classified AztecTy or GeneralAztecTy no two KeyID pushes
\* hold the same KeyID, however each is encoded: a script that holds a KeyID
\* twice is not classified as an authorization script
C29_KeyIDsDistinct ==
    (Classified /\ class \in {AztecTy, GeneralAztecTy}) =>
        \A i, j \in MidIdx(script.ops) :
            (/\ i # j
             /\ IsKeyIDPush(script.ops[i])
             /\ IsKeyIDPush(script.ops[j]))
                => KeyIDAt(script.ops, i) # KeyIDAt(script.ops, j)

\* OP_2 OP_1 <4-byte push of 1> <KeyID> OP_3 OP_CHECKSAFEMULTISIG, three
\* KeyIDs two of which are 1, is not an authorization script
C29_Witness ==
    /\ Classified
    /\ ~script.bad
    /\ script.ops = <<SmallInt(2), SmallInt(1), KeyIDPush(1), KeyIDPush(65536),
                      SmallInt(3), Op(OP_CHECKSAFEMULTISIG)>>
    /\ KeyIDAt(script.ops, 2) = KeyIDAt(script.ops, 3)
    /\ class = NonStandardTy

\* C30: in a script classified AztecTy or GeneralAztecTy every 20-byte hash
\* push stands before every KeyID push: a script with a hash push after a
\* KeyID push is not classified as an authorization script
C30_HashesBeforeKeyIDs ==
    (Classified /\ class \in {AztecTy, GeneralAztecTy}) =>
        \A i, j \in MidIdx(script.ops) :
            (IsKeyIDPush(script.ops[i]) /\ IsHashPush(script.ops[j])) => j < i

\* OP_2 <KeyID> <hash> <KeyID> OP_3 OP_CHECKSAFEMULTISIG, with two distinct
\* KeyIDs and one hash, is not an authorization script
C30_Witness ==
    /\ Classified
    /\ ~script.bad
    /\ Len(script.ops) = 6
    /\ script.ops[1].op = OP_2
    /\ IsKeyIDPush(script.ops[2])
    /\ IsHashPush(script.ops[3])
    /\ IsKeyIDPush(script.ops[4])
    /\ KeyIDAt(script.ops, 2) # KeyIDAt(script.ops, 4)
    /\ script.ops[5].op = OP_3
    /\ script.ops[6].op = OP_CHECKSAFEMULTISIG
    /\ class = NonStandardTy


-----------------------------------------------------------------------------
(* The thread scripts *)

\* AztecThreadScript, lines 486-492
AztecThreadScript(threadID) == Script(<<AddInt64(threadID), Op(OP_CHECKTHREAD)>>)

\* the operation encodes a number: a small integer, OP_1NEGATE, or a push of
\* at most four bytes that decode to a number
EncodesValue(pop) ==
    \/ isSmallInt(pop.op)
    \/ pop.op = OP_1NEGATE
    \/ (pop.op >= 1 /\ pop.op <= OP_DATA_4 /\ pop.dlen = pop.op /\ pop.numOK)

\* the number it encodes
EncodedValue(pop) ==
    IF isSmallInt(pop.op) THEN asSmallInt(pop.op)
    ELSE IF pop.op = OP_1NEGATE THEN -1
    ELSE pop.num

\* C31: the script AztecThreadScript builds for a thread t of Root,
\* Provision, Issue has exactly two operations, is classified AztecAdminTy,
\* and the thread id read back from it is t without an error; a script of
\* two operations that ends in OP_CHECKTHREAD and whose first operation
\* encodes a number outside 0..2 is not classified AztecAdminTy
C31_ThreadScripts ==
    Classified =>
        /\ \A t \in Threads :
              script = AztecThreadScript(t) =>
                  /\ Len(script.ops) = 2
                  /\ class = AztecAdminTy
                  /\ \A e \in ThreadIDErrs(script.ops) :
                        ExtractThreadID(script.ops, e) = [id |-> t, err |-> FALSE]
        /\ (/\ ~script.bad
            /\ Len(script.ops) = 2
            /\ script.ops[2].op = OP_CHECKTHREAD
            /\ EncodesValue(script.ops[1])
            /\ EncodedValue(script.ops[1]) \notin RootThread..IssueThread)
               => class # AztecAdminTy

\* the thread script of the Issue thread has been classified
C31_Witness ==
    /\ Classified
    /\ script = AztecThreadScript(IssueThread)
    /\ class = AztecAdminTy
    /\ ExtractThreadID(script.ops, FALSE).id = IssueThread

\* two-operation scripts ending in OP_CHECKTHREAD that are not thread
\* scripts: the first operation is OP_3, OP_1NEGATE or a four-byte push
C31_WitnessOutside ==
    /\ Classified
    /\ ~script.bad
    /\ script.ops = <<SmallInt(IssueThread + 1), Op(OP_CHECKTHREAD)>>
    /\ class = NonStandardTy

-----------------------------------------------------------------------------
(* The names of the script classes *)

\* the name of each class the constants define
NameOfClass(t) ==
    CASE t = NonStandardTy -> "nonstandard"
      [] t = PubKeyTy -> "pubkey"
      [] t = PubKeyHashTy -> "pubkeyhash"
      [] t = ScriptHashTy -> "scripthash"
      [] t = MultiSigTy -> "multisig"
      [] t = NullDataTy -> "nulldata"
      [] t = AztecTy -> "aztec"
      [] t = GeneralAztecTy -> "aztec"
      [] t = AztecAdminTy -> "aztecadmin"

\* C32: String returns without a panic; for each of the nine classes it
\* returns the name of the class, for every other value "Invalid"
C32_StringTotal ==
    called = "String" =>
        /\ ~className.panic
        /\ className.str =
              (IF class \in NonStandardTy..AztecAdminTy
               THEN NameOfClass(class) ELSE "Invalid")

-----------------------------------------------------------------------------
(* Heights and parents along a sequence of nextBlock and setTip calls *)

\* the step builds a block: a name is registered
BuildsBlock == DOMAIN g'.blocksByName # DOMAIN g.blocksByName

\* the block the step registers
NewBlock ==
    g'.blocksByName[CHOOSE n \in DOMAIN g'.blocksByName : n \notin DOMAIN g.blocksByName]

\* tipHeight is the height recorded for tipName, and the tip is the block
\* of that name and has that height
TipRecorded ==
    /\ g.tipName \in DOMAIN g.blockHeights
    /\ g.tipHeight = g.blockHeights[g.tipName]
    /\ g.tip = g.blocksByName[g.tipName]
    /\ g.tip.Header.Height = g.tipHeight

\* the block a step builds extends the block that was the tip, and becomes
\* the tip
ExtendsTip ==
    BuildsBlock =>
        /\ NewBlock.Header.Height = g.tip.Header.Height + 1
        /\ NewBlock.Header.PrevBlock = BlockHash(g.tip)
        /\ g'.tip = NewBlock
        /\ g'.tipName \notin DOMAIN g.blocksByName

\* C33: along any sequence of nextBlock and setTip calls (distinct names,
\* mungers that leave PrevBlock and Height alone) every block built has the
\* height of the tip it was built on plus one and that tip's hash as
\* PrevBlock and becomes the tip, and tipHeight is always the height
\* recorded for tipName
C33_HeightsAndParents == [](TipRecorded) /\ [][ExtendsTip]_vars

\* b1 was built on the genesis block, the tip was set back to the genesis
\* block, and b2 was built on it with another nonce than b1: two blocks of
\* height 1 with the same parent
C33_Witness ==
    /\ DOMAIN g.blocksByName = {Genesis, BlockName("b", 1), BlockName("b", 2)}
    /\ g.tipName = BlockName("b", 2)
    /\ g.blockHeights[BlockName("b", 1)] = 1
    /\ g.tipHeight = 1
    /\ g.tip.Header.PrevBlock = BlockHash(g.blocksByName[Genesis])
    /\ g.blocksByName[BlockName("b", 1)].Header.PrevBlock = g.tip.Header.PrevBlock
    /\ g.blocksByName[BlockName("b", 1)].Header.Nonce # g.tip.Header.Nonce

-----------------------------------------------------------------------------
(* Maturity of the coinbase outputs Generate spends *)

\* the blocks built so far, the genesis block among them
BuiltBlocks == {g.blocksByName[n] : n \in DOMAIN g.blocksByName}

\* the blocks whose coinbase the output belongs to
OwnersOf(out) ==
    {b \in BuiltBlocks : TxHash(b.Transactions[1]) = out.prevOut.Hash}

\* the blocks with a transaction that spends the output
SpendersOf(out) ==
    {b \in BuiltBlocks :
        \E i \in DOMAIN b.Transactions : out.prevOut \in SpentBy(b.Transactions[i])}

\* C34: every block built by Generate, on any branch, that spends a
\* collected coinbase output has at least the height of the block owning
\* the coinbase plus coinbaseMaturity; nothing is tested when the outputs
\* are collected: at the end of the collection loop all of them are
\* collected although only the first can be spent in the next block
C34_SpendsAreMature ==
    /\ \A i \in DOMAIN CollectedOuts :
          /\ Cardinality(OwnersOf(CollectedOuts[i])) = 1
          /\ \A o \in OwnersOf(CollectedOuts[i]), b \in SpendersOf(CollectedOuts[i]) :
                b.Header.Height >= o.Header.Height + coinbaseMaturity
    /\ pc = AfterCollect =>
          \A i \in 2..Len(CollectedOuts) :
              \A o \in OwnersOf(CollectedOuts[i]) :
                  o.Header.Height + coinbaseMaturity > g.tipHeight + 1

\* Generate has returned its tests: b1 spends the coinbase of bm0 at exactly
\* its maturity, b13 and b15, on two branches, spend the same output, and
\* b16 spends the last collected output
C34_Witness ==
    /\ pc = 0
    /\ err = "nil"
    /\ Len(CollectedOuts) = coinbaseMaturity
    /\ g.blocksByName[BlockName("b", 1)] \in SpendersOf(CollectedOuts[1])
    /\ g.blockHeights[BlockName("b", 1)] = 1 + coinbaseMaturity
    /\ {g.blocksByName[BlockName("b", 13)], g.blocksByName[BlockName("b", 15)]}
          \subseteq SpendersOf(CollectedOuts[8])
    /\ g.blocksByName[BlockName("b", 16)] \in SpendersOf(CollectedOuts[10])

-----------------------------------------------------------------------------
(* Spendable outputs *)

\* the spendable output is made of output i of the transaction its
\* reference names: reference, locking script and value
BelongsToOutput(o) ==
    LET tx == o.prevOut.Hash.tx
        i == o.prevOut.Index
    IN /\ i + 1 \in DOMAIN tx.TxOut
       /\ o.prevOut = [Hash |-> TxHash(tx), Index |-> i]
       /\ o.pkScript = tx.TxOut[i + 1].PkScript
       /\ o.amount = tx.TxOut[i + 1].Value

\* C35: every spendable output Generate makes with makeSpendableOut or
\* makeSpendableOutForTx, for a transaction tx and an output index i, holds
\* the reference, the locking script and the value of output i of tx; so
\* the thread outputs taken from outputs 1 and 2 of the genesis transaction
\* hold the locking scripts of those outputs
C35_OutBelongsToOutput ==
    /\ \A k \in DOMAIN outs : BelongsToOutput(outs[k])
    /\ \A k \in DOMAIN g.spendableOuts : BelongsToOutput(g.spendableOuts[k])

-----------------------------------------------------------------------------
(* Who writes the caller's header during solveBlock *)

\* the header as the caller hands it to solveBlock
CallerHeader == [Nonce |-> 0]

\* the step is the calling thread receiving a success from a worker and
\* writing the nonce of that success
WrittenOnSuccess ==
    /\ mpc = "recv"
    /\ mpc' = "returned"
    /\ ret'
    /\ header = CallerHeader
    /\ \E w \in DOMAIN wpc :
          /\ wpc[w] = "send"
          /\ wpc'[w] = "done"
          /\ wmsg[w].found
          /\ header' = [header EXCEPT !.Nonce = wmsg[w].nonce]

\* C36: a step of a worker leaves the caller's header as it is (the nonce a
\* worker writes is the one of its own copy); the header is written only by
\* the step in which the calling thread has received a success, hence at
\* most once, and it is as the caller handed it over until then and when
\* solveBlock returns false
C36_OnlyCallerWritesHeader ==
    /\ [][header' # header => WrittenOnSuccess]_vars
    /\ []((mpc # "returned" \/ ~ret) => header = CallerHeader)

\* solveBlock has returned true with the nonce of one worker in the header
\* while another worker has moved the nonce of its own copy past the start
\* of its range
C36_Witness ==
    /\ mpc = "returned"
    /\ ret
    /\ header.Nonce \in solutions
    /\ \E w \in DOMAIN wi :
          /\ wi[w] # header.Nonce
          /\ wi[w] > rangeStart(numCores, w)
=============================================================================
